---- MODULE Spec2Model ----
(***************************************************************************)
(* Model of the Constellation Quiz sky view: the SkyViewCanvas component   *)
(* (stereographic projection, hemisphere layout, boundary regions, hit     *)
(* testing, star drawing) as a state machine.                              *)
(*                                                                         *)
(* Numbers.  The component computes in double precision.  The model works  *)
(* on a sky grid of 15 degrees (1 hour of right ascension) and keeps       *)
(* trigonometric values as integers scaled by Unit; canvas coordinates are *)
(* whole pixels.                                                           *)
(***************************************************************************)
EXTENDS Integers, Sequences, FiniteSets, TLC

VARIABLES
    props,          \* the props of SkyViewCanvas, as last rendered
    isMobile,       \* useState(false), set by checkMobile
    pending,        \* the draw effect is scheduled (a dependency changed)
    boundaryPaths,  \* boundaryPathsRef.current, a Map in insertion order
    canvas,         \* the drawing operations of the last draw pass, in order
    drawnWith,      \* the dependency values the last completed pass read
    lastEvent,      \* the click event handled by the latest step, if any
    calls,          \* the onClick invocations made by the latest step
    probe,          \* the argument and result of the latest projection probe
    quiz,           \* the regular quiz: App's screen and quizState, Quiz's state
    skyView,        \* the sky view quiz: the state of SkyViewScreen
    generated       \* a call of the question generators: inputs and result

\* The state of the sky view.
skyVars == <<props, isMobile, pending, boundaryPaths, canvas, drawnWith,
             lastEvent, calls, probe>>

vars == <<props, isMobile, pending, boundaryPaths, canvas, drawnWith,
          lastEvent, calls, probe, quiz, skyView, generated>>

(***************************************************************************)
(* Arithmetic helpers                                                      *)
(***************************************************************************)
Min2(a, b) == IF a <= b THEN a ELSE b
Max2(a, b) == IF a >= b THEN a ELSE b

SetMin(S) == CHOOSE m \in S : \A n \in S : m <= n

\* 1000 * sin(a) for a = 0, 15, ..., 90 degrees.
SinTab == <<0, 259, 500, 707, 866, 966, 1000>>

\* Fixed-point scale of the trigonometric tables: the table value of sin(90).
Unit == SinTab[Len(SinTab)]

\* Step of the sky grid, in degrees.
GridDeg == 90 \div (Len(SinTab) - 1)

\* 1000 * tan(a / 2) for a = 0, 15, ..., 180 degrees.  Math.tan(Math.PI / 2)
\* is a finite double (1.6e16): the last entry stands for a value far beyond
\* every canvas.
TanHalfTab == <<0, 132, 268, 414, 577, 767, 1000, 1303, 1732, 2414, 3732,
                7596, 100000>>

\* Math.sin of an angle in degrees (a multiple of GridDeg, any sign).
SinDeg(a) ==
    LET m == a % 360
    IN  IF m <= 90 THEN SinTab[(m \div GridDeg) + 1]
        ELSE IF m <= 180 THEN SinTab[((180 - m) \div GridDeg) + 1]
        ELSE IF m <= 270 THEN 0 - SinTab[((m - 180) \div GridDeg) + 1]
        ELSE 0 - SinTab[((360 - m) \div GridDeg) + 1]

\* Math.cos of an angle in degrees.
CosDeg(a) == SinDeg(a + 90)

\* Math.acos, in degrees, of a table value of the cosine.
AcosDeg(c) ==
    CHOOSE a \in {GridDeg * k : k \in 0..(180 \div GridDeg)} : CosDeg(a) = c

\* Math.tan(a / 2) of an angle a in 0..180 degrees.
TanHalfDeg(a) == TanHalfTab[(a \div GridDeg) + 1]

(***************************************************************************)
(* Layout: hemisphereSize, canvasWidth, canvasHeight, hemisphere centers   *)
(***************************************************************************)
hemisphereSize == 800

showBothHemispheres(hemisphereFilter) == hemisphereFilter = "both"

canvasWidth(hemisphereFilter, mobile) ==
    IF showBothHemispheres(hemisphereFilter)
    THEN (IF mobile THEN hemisphereSize + 20 ELSE hemisphereSize * 2 + 40)
    ELSE hemisphereSize + 20

\* canvasHeight with the height of one circle in every layout.
MutCanvasHeightOfOne(hemisphereFilter, mobile) ==
    hemisphereSize + 60

canvasHeight(hemisphereFilter, mobile) ==
    IF showBothHemispheres(hemisphereFilter)
    THEN (IF mobile THEN hemisphereSize * 2 + 100 ELSE hemisphereSize + 60)
    ELSE hemisphereSize + 60

hemispheresToShow(hemisphereFilter) ==
    IF showBothHemispheres(hemisphereFilter)
    THEN <<"north", "south">>
    ELSE <<hemisphereFilter>>

centerX(hemisphere, hemisphereFilter, mobile) ==
    IF showBothHemispheres(hemisphereFilter)
    THEN (IF mobile
          THEN hemisphereSize \div 2 + 10
          ELSE (IF hemisphere = "north"
                THEN hemisphereSize \div 2 + 10
                ELSE (hemisphereSize * 3) \div 2 + 30))
    ELSE hemisphereSize \div 2 + 10

\* centerY without the stacking of the narrow layout.
MutCenterYFlat(hemisphere, hemisphereFilter, mobile) ==
    hemisphereSize \div 2 + 40

centerY(hemisphere, hemisphereFilter, mobile) ==
    IF showBothHemispheres(hemisphereFilter)
    THEN (IF mobile
          THEN (IF hemisphere = "north"
                THEN hemisphereSize \div 2 + 40
                ELSE (hemisphereSize * 3) \div 2 + 90)
          ELSE hemisphereSize \div 2 + 40)
    ELSE hemisphereSize \div 2 + 40

\* The circle of one hemisphere: the arc that clips its pass,
\* ctx.arc(centerX, centerY, hemisphereSize / 2, 0, Math.PI * 2).
ClipCircle(hemisphere, hemisphereFilter, mobile) ==
    [hemisphere |-> hemisphere,
     centerX |-> centerX(hemisphere, hemisphereFilter, mobile),
     centerY |-> centerY(hemisphere, hemisphereFilter, mobile),
     radius |-> hemisphereSize \div 2]

(***************************************************************************)
(* projectToHemisphere                                                     *)
(***************************************************************************)
\* raToRad / decToRad: the model keeps angles in degrees.
raToDeg(raHours) == raHours * 15

\* The declination of the pole a hemisphere view is centered on.
centerDecOf(hemisphere) == IF hemisphere = "north" THEN 90 ELSE 0 - 90

\* Angular distance from the pole, in degrees, by the law of cosines at the
\* pole, clamped to [-1, 1] before the arc cosine.
angularDistOf(dec, hemisphere) ==
    LET centerDec == centerDecOf(hemisphere)
        cosDist == (SinDeg(centerDec) * SinDeg(dec)
                    + CosDeg(centerDec) * CosDeg(dec)) \div Unit
    IN  AcosDeg(Max2(0 - Unit, Min2(Unit, cosDist)))

\* Position angle around the pole: -RA in the north view, +RA in the south.
posAngleOf(ra, hemisphere) ==
    IF hemisphere = "north" THEN 0 - raToDeg(ra) ELSE raToDeg(ra)

\* visibleAt with the boundary left out (< for <=).
MutVisibleStrict(angularDist) == angularDist < 90

\* visible: angularDist * 180 / Math.PI <= 90
visibleAt(angularDist) == angularDist <= 90

\* projectToHemisphere with the poles of the two views exchanged.
MutProjectWrongPole(ra, dec, hemisphere, cX, cY) ==
    LET angularDist == angularDistOf(dec, IF hemisphere = "north" THEN "south" ELSE "north")
        posAngle == posAngleOf(ra, hemisphere)
        r == 2 * TanHalfDeg(angularDist)
        edgeR == 2 * TanHalfDeg(90)
        projX == (((r * SinDeg(posAngle)) \div Unit) * (hemisphereSize \div 2)) \div edgeR
        projY == (((r * CosDeg(posAngle)) \div Unit) * (hemisphereSize \div 2)) \div edgeR
    IN  [x |-> cX + projX, y |-> cY - projY,
         angularDist |-> angularDist, visible |-> visibleAt(angularDist)]

\* Stereographic projection of (ra hours, dec degrees) into the view of one
\* hemisphere centered at (cX, cY): r = 2 tan(d / 2), scaled so that d = 90
\* lands on the circle of radius hemisphereSize / 2.
projectToHemisphere(ra, dec, hemisphere, cX, cY) ==
    LET angularDist == angularDistOf(dec, hemisphere)
        posAngle == posAngleOf(ra, hemisphere)
        r == 2 * TanHalfDeg(angularDist)
        edgeR == 2 * TanHalfDeg(90)
        projX == (((r * SinDeg(posAngle)) \div Unit) * (hemisphereSize \div 2)) \div edgeR
        projY == (((r * CosDeg(posAngle)) \div Unit) * (hemisphereSize \div 2)) \div edgeR
    IN  [x |-> cX + projX, y |-> cY - projY,
         angularDist |-> angularDist, visible |-> visibleAt(angularDist)]

(***************************************************************************)
(* Input data: constellation catalogs, star catalogs, filters              *)
(***************************************************************************)
\* Abbreviations are strings; the model keeps a string as the sequence of
\* its characters, so that building and splitting a Map key are computed.
\* The catalog keys are IAU abbreviations: three letters.
UMA == <<"U", "M", "A">>
OPH == <<"O", "P", "H">>
PAV == <<"P", "A", "V">>
ERI == <<"E", "R", "I">>
LYN == <<"L", "Y", "N">>
CRB == <<"C", "R", "B">>
BOO == <<"B", "O", "O">>

\* The null abbrev of the click callback.
Null == <<"null">>

\* Magnitudes are kept in tenths of a magnitude.
Star(ra, dec, magnitude) == [ra |-> ra, dec |-> dec, magnitude |-> magnitude]

\* Object.entries(constellations) of the catalogs the model draws from, in
\* iteration order.  boundary: (ra hours, dec degrees) vertices.
\*   "sky":     UMA around RA 10h, Dec +60; OPH and ERI across the equator;
\*              PAV in the south; LYN with a malformed two-vertex boundary.
\*   "overlap": CRB inside BOO (overlapping boundaries).
Entries(constellations) ==
    IF constellations = "sky" THEN
        << [abbrev |-> UMA,
            boundary |-> << <<9, 45>>, <<11, 45>>, <<11, 75>>, <<9, 75>> >>,
            stars |-> << Star(10, 60, 18), Star(11, 45, 0) >>,
            lines |-> << <<0, 1>> >>],
           [abbrev |-> OPH,
            boundary |-> << <<17, 15>>, <<19, 15>>, <<19, -45>>, <<17, -45>> >>,
            stars |-> << Star(18, 0, 21), Star(17, -15, -5) >>,
            lines |-> << <<0, 1>> >>],
           [abbrev |-> PAV,
            boundary |-> << <<17, -45>>, <<19, -45>>, <<19, -75>>, <<17, -75>> >>,
            stars |-> << Star(18, -60, 19) >>,
            lines |-> << >>],
           [abbrev |-> ERI,
            boundary |-> << <<2, 0>>, <<4, 0>>, <<4, -60>>, <<2, -60>> >>,
            stars |-> << Star(3, -15, 30), Star(2, -60, 5) >>,
            lines |-> << <<0, 1>> >>],
           [abbrev |-> LYN,
            boundary |-> << <<7, 45>>, <<8, 60>> >>,
            stars |-> << Star(8, 45, 31), Star(7, 60, 43) >>,
            lines |-> << <<0, 1>> >>] >>
    ELSE IF constellations = "overlap" THEN
        << [abbrev |-> CRB,
            boundary |-> << <<15, 45>>, <<17, 45>>, <<17, 75>>, <<15, 75>> >>,
            stars |-> << Star(16, 60, 22) >>,
            lines |-> << >>],
           [abbrev |-> BOO,
            boundary |-> << <<13, -15>>, <<17, -15>>, <<17, 75>>, <<13, 75>> >>,
            stars |-> << Star(14, 15, 0), Star(15, 30, 35) >>,
            lines |-> << <<0, 1>> >>] >>
    ELSE << >>

\* The catalogs a parent may pass: null (not loaded), {} and the two above.
Catalogs == {"null", "empty", "sky", "overlap"}

\* The filteredConstellations a parent may pass (null reads as []).
Filters == { << >>, <<UMA, CRB>>, <<OPH, PAV, BOO>> }

\* The background star catalogs (starCatalogData || []).
StarCatalog(backgroundStars) ==
    IF backgroundStars = "hip"
    THEN << Star(10, 75, 0), Star(3, 30, 45), Star(18, -30, -14),
            Star(20, 0, 62), Star(6, -90, 38) >>
    ELSE << >>

(***************************************************************************)
(* The region registry: a Map keyed by `${abbrev}-${hemisphere}`           *)
(***************************************************************************)
Chars(hemisphere) ==
    IF hemisphere = "north" THEN <<"n", "o", "r", "t", "h">>
    ELSE <<"s", "o", "u", "t", "h">>

\* `${abbrev}-${hemisphere}`
MakeKey(abbrev, hemisphere) == abbrev \o <<"-">> \o Chars(hemisphere)

\* key.split('-')[0]
SplitFirst(key) ==
    LET dashes == {i \in 1..Len(key) : key[i] = "-"}
    IN  IF dashes = {} THEN key
        ELSE SubSeq(key, 1, SetMin(dashes) - 1)

\* Map.prototype.set: a new key is appended, the value of a key already
\* present is replaced where it stands.
MapSet(map, key, path) ==
    LET at == {i \in 1..Len(map) : map[i].key = key}
    IN  IF at = {} THEN Append(map, [key |-> key, path |-> path])
        ELSE [map EXCEPT ![SetMin(at)].path = path]

(***************************************************************************)
(* Path2D and ctx.isPointInPath (fill rule "nonzero")                      *)
(***************************************************************************)
\* > 0 when p is left of the line from a to b, 0 when on it.
IsLeft(a, b, p) ==
    (b.x - a.x) * (p.y - a.y) - (p.x - a.x) * (b.y - a.y)

OnSegment(a, b, p) ==
    /\ IsLeft(a, b, p) = 0
    /\ Min2(a.x, b.x) <= p.x /\ p.x <= Max2(a.x, b.x)
    /\ Min2(a.y, b.y) <= p.y /\ p.y <= Max2(a.y, b.y)

\* The closed path of moveTo / lineTo / closePath: the points on the path
\* count as inside, and so does every point of nonzero winding number.
isPointInPath(path, x, y) ==
    LET n == Len(path)
        p == [x |-> x, y |-> y]
        nxt(i) == IF i = n THEN 1 ELSE i + 1
        turn(i) ==
            LET a == path[i]
                b == path[nxt(i)]
            IN  IF a.y <= y
                THEN (IF b.y > y /\ IsLeft(a, b, p) > 0 THEN 1 ELSE 0)
                ELSE (IF b.y <= y /\ IsLeft(a, b, p) < 0 THEN 0 - 1 ELSE 0)
        winding[i \in 0..n] == IF i = 0 THEN 0 ELSE winding[i - 1] + turn(i)
    IN  \/ \E i \in 1..n : OnSegment(path[i], path[nxt(i)], p)
        \/ winding[n] # 0

(***************************************************************************)
(* The draw effect: boundary paths and their registration                  *)
(***************************************************************************)
\* data.boundary.some(([ra, dec]) => projectToHemisphere(...).visible)
anyVisible(boundary, hemisphere, cX, cY) ==
    \E i \in 1..Len(boundary) :
        projectToHemisphere(boundary[i][1], boundary[i][2], hemisphere, cX, cY).visible

\* PathOf with the vertices beyond the 90-degree cutoff left out.
MutPathVisibleOnly(boundary, hemisphere, cX, cY) ==
    LET all == [i \in 1..Len(boundary) |->
                   projectToHemisphere(boundary[i][1], boundary[i][2], hemisphere, cX, cY)]
        seen == SelectSeq(all, LAMBDA pt : pt.visible)
    IN  [i \in 1..Len(seen) |-> [x |-> seen[i].x, y |-> seen[i].y]]

\* The Path2D of a boundary in one hemisphere: every vertex, in boundary
\* order, visible or not.
PathOf(boundary, hemisphere, cX, cY) ==
    [i \in 1..Len(boundary) |->
        LET pt == projectToHemisphere(boundary[i][1], boundary[i][2], hemisphere, cX, cY)
        IN  [x |-> pt.x, y |-> pt.y]]

\* `!data.boundary || data.boundary.length < 3` and `!anyVisible` skip a
\* constellation in a hemisphere; otherwise its path is built.
IsBuilt(data, hemisphere, cX, cY) ==
    /\ Len(data.boundary) >= 3
    /\ anyVisible(data.boundary, hemisphere, cX, cY)

\* IsRegistered without the filter test.
MutRegisterAlways(filtered, abbrev) == TRUE

\* filteredSet.size === 0 || filteredSet.has(abbrev)
IsRegistered(filtered, abbrev) ==
    LET filteredSet == {filtered[i] : i \in 1..Len(filtered)}
    IN  Cardinality(filteredSet) = 0 \/ abbrev \in filteredSet

\* The registry after the loops of one draw pass that starts from `start`:
\* hemispheres in the order of hemispheresToShow, and in each hemisphere the
\* catalog entries in iteration order.
RegisterPass(start, p, mobile) ==
    LET hs == hemispheresToShow(p.hemisphereFilter)
        es == Entries(p.constellations)
        ne == Len(es)
        reg[k \in 0..(Len(hs) * ne)] ==
            IF k = 0 THEN start
            ELSE LET h == hs[((k - 1) \div ne) + 1]
                     data == es[((k - 1) % ne) + 1]
                     cX == centerX(h, p.hemisphereFilter, mobile)
                     cY == centerY(h, p.hemisphereFilter, mobile)
                 IN  IF /\ IsBuilt(data, h, cX, cY)
                        /\ IsRegistered(p.filteredConstellations, data.abbrev)
                     THEN MapSet(reg[k - 1], MakeKey(data.abbrev, h),
                                 PathOf(data.boundary, h, cX, cY))
                     ELSE reg[k - 1]
    IN  reg[Len(hs) * ne]

\* RebuildPaths without the clear().
MutKeepPaths(old, p, mobile) == RegisterPass(old, p, mobile)

\* boundaryPathsRef.current.clear() and the rebuild that follows it.
RebuildPaths(old, p, mobile) == RegisterPass(<< >>, p, mobile)

(***************************************************************************)
(* The draw effect: what one pass puts on the canvas                       *)
(***************************************************************************)
\* One drawing operation.  abbrev, index and color are Null, 0 and "" where
\* the operation has none.
Op(op, hemisphere, abbrev, index, color) ==
    [op |-> op, hemisphere |-> hemisphere, abbrev |-> abbrev,
     index |-> index, color |-> color]

\* The concatenation F(1) \o ... \o F(n).
ConcatTo(n, F(_)) ==
    LET acc[i \in 0..n] == IF i = 0 THEN << >> ELSE acc[i - 1] \o F(i)
    IN  acc[n]

\* star.magnitude || 5, in tenths of a magnitude: 0 is falsy.
MagOrDefault(magnitude) == IF magnitude = 0 THEN 50 ELSE magnitude

\* StarIsDrawn with the magnitude test reversed (< for >).
MutStarFilterInverted(star, maxMagnitude, hemisphere, cX, cY) ==
    /\ ~(MagOrDefault(star.magnitude) < maxMagnitude)
    /\ projectToHemisphere(star.ra, star.dec, hemisphere, cX, cY).visible

\* A star passes `if (mag > maxMagnitude) continue` and
\* `if (!pt.visible) continue`.
StarIsDrawn(star, maxMagnitude, hemisphere, cX, cY) ==
    /\ ~(MagOrDefault(star.magnitude) > maxMagnitude)
    /\ projectToHemisphere(star.ra, star.dec, hemisphere, cX, cY).visible

\* BackgroundStarOps without the opacity test.
MutBackgroundAnyOpacity(p, hemisphere, cX, cY) ==
    LET stars == StarCatalog(p.backgroundStars)
        one(i) == IF StarIsDrawn(stars[i], p.maxMagnitude, hemisphere, cX, cY)
                  THEN << Op("bgStar", hemisphere, Null, i, "white") >>
                  ELSE << >>
    IN  IF Len(stars) > 0
        THEN ConcatTo(Len(stars), one)
        ELSE << >>

\* Background stars: only with a non-empty catalog and an opacity above 0.
BackgroundStarOps(p, hemisphere, cX, cY) ==
    LET stars == StarCatalog(p.backgroundStars)
        one(i) == IF StarIsDrawn(stars[i], p.maxMagnitude, hemisphere, cX, cY)
                  THEN << Op("bgStar", hemisphere, Null, i, "white") >>
                  ELSE << >>
    IN  IF Len(stars) > 0 /\ p.backgroundStarOpacity > 0
        THEN ConcatTo(Len(stars), one)
        ELSE << >>

\* BoundaryOps with the highlight tested before the tap.
MutHighlightFirst(p, data, hemisphere, cX, cY) ==
    LET isHighlighted == data.abbrev = p.highlightedAbbrev
        isTapped == p.tappedFeedback.present /\ data.abbrev = p.tappedFeedback.abbrev
        tapColor == IF p.tappedFeedback.correct THEN "green" ELSE "red"
    IN  IF ~IsBuilt(data, hemisphere, cX, cY) \/ ~p.showBoundaries THEN << >>
        ELSE IF isHighlighted /\ ~(p.tappedFeedback.present /\ p.tappedFeedback.correct)
        THEN << Op("fill", hemisphere, data.abbrev, 0, "blue"),
                Op("stroke", hemisphere, data.abbrev, 0, "blue") >>
        ELSE IF isTapped
        THEN << Op("fill", hemisphere, data.abbrev, 0, tapColor),
                Op("stroke", hemisphere, data.abbrev, 0, tapColor) >>
        ELSE << Op("stroke", hemisphere, data.abbrev, 0, "gray") >>

\* The boundary of one constellation: filled when tapped (green or red) or
\* when highlighted after a tap that was not correct (blue), then stroked.
BoundaryOps(p, data, hemisphere, cX, cY) ==
    LET isHighlighted == data.abbrev = p.highlightedAbbrev
        isTapped == p.tappedFeedback.present /\ data.abbrev = p.tappedFeedback.abbrev
        tapColor == IF p.tappedFeedback.correct THEN "green" ELSE "red"
    IN  IF ~IsBuilt(data, hemisphere, cX, cY) \/ ~p.showBoundaries THEN << >>
        ELSE IF isTapped
        THEN << Op("fill", hemisphere, data.abbrev, 0, tapColor),
                Op("stroke", hemisphere, data.abbrev, 0, tapColor) >>
        ELSE IF isHighlighted /\ ~(p.tappedFeedback.present /\ p.tappedFeedback.correct)
        THEN << Op("fill", hemisphere, data.abbrev, 0, "blue"),
                Op("stroke", hemisphere, data.abbrev, 0, "blue") >>
        ELSE << Op("stroke", hemisphere, data.abbrev, 0, "gray") >>

\* The line segments of one constellation: both indices in range and at
\* least one end visible.
LineOps(p, data, hemisphere, cX, cY) ==
    LET stars == data.stars
        one(i) ==
            LET idx1 == data.lines[i][1]
                idx2 == data.lines[i][2]
            IN  IF idx1 < Len(stars) /\ idx2 < Len(stars)
                   /\ ( \/ projectToHemisphere(stars[idx1 + 1].ra, stars[idx1 + 1].dec,
                                               hemisphere, cX, cY).visible
                        \/ projectToHemisphere(stars[idx2 + 1].ra, stars[idx2 + 1].dec,
                                               hemisphere, cX, cY).visible )
                THEN << Op("line", hemisphere, data.abbrev, i,
                           IF data.abbrev = p.highlightedAbbrev THEN "accent" ELSE "gray") >>
                ELSE << >>
    IN  IF p.showLines THEN ConcatTo(Len(data.lines), one) ELSE << >>

\* The stars of one constellation; a glow under the bright ones (mag < 2.5).
StarOps(p, data, hemisphere, cX, cY) ==
    LET color == IF data.abbrev = p.highlightedAbbrev THEN "accent" ELSE "white"
        one(i) ==
            IF StarIsDrawn(data.stars[i], p.maxMagnitude, hemisphere, cX, cY)
            THEN (IF MagOrDefault(data.stars[i].magnitude) < 25
                  THEN << Op("glow", hemisphere, data.abbrev, i, color) >>
                  ELSE << >>)
                 \o << Op("star", hemisphere, data.abbrev, i, color) >>
            ELSE << >>
    IN  ConcatTo(Len(data.stars), one)

\* HemisphereOps with the border circle drawn before the clip is released.
MutBorderUnderClip(p, mobile, hemisphere) ==
    LET cX == centerX(hemisphere, p.hemisphereFilter, mobile)
        cY == centerY(hemisphere, p.hemisphereFilter, mobile)
        es == Entries(p.constellations)
        boundaries(i) == BoundaryOps(p, es[i], hemisphere, cX, cY)
        lines(i) == LineOps(p, es[i], hemisphere, cX, cY)
        stars(i) == StarOps(p, es[i], hemisphere, cX, cY)
    IN  << Op("clip", hemisphere, Null, 0, ""),
           Op("background", hemisphere, Null, 0, "") >>
        \o BackgroundStarOps(p, hemisphere, cX, cY)
        \o ConcatTo(Len(es), boundaries)
        \o ConcatTo(Len(es), lines)
        \o ConcatTo(Len(es), stars)
        \o << Op("border", hemisphere, Null, 0, ""),
              Op("restore", hemisphere, Null, 0, "") >>

\* One iteration of `for (const hemisphere of hemispheresToShow)`.
HemisphereOps(p, mobile, hemisphere) ==
    LET cX == centerX(hemisphere, p.hemisphereFilter, mobile)
        cY == centerY(hemisphere, p.hemisphereFilter, mobile)
        es == Entries(p.constellations)
        boundaries(i) == BoundaryOps(p, es[i], hemisphere, cX, cY)
        lines(i) == LineOps(p, es[i], hemisphere, cX, cY)
        stars(i) == StarOps(p, es[i], hemisphere, cX, cY)
    IN  << Op("clip", hemisphere, Null, 0, ""),
           Op("background", hemisphere, Null, 0, "") >>
        \o BackgroundStarOps(p, hemisphere, cX, cY)
        \o ConcatTo(Len(es), boundaries)
        \o ConcatTo(Len(es), lines)
        \o ConcatTo(Len(es), stars)
        \o << Op("restore", hemisphere, Null, 0, ""),
              Op("border", hemisphere, Null, 0, "") >>

\* The canvas after a pass: cleared, then one hemisphere after the other.
DrawOps(p, mobile) ==
    LET hs == hemispheresToShow(p.hemisphereFilter)
        one(i) == HemisphereOps(p, mobile, hs[i])
    IN  ConcatTo(Len(hs), one)

(***************************************************************************)
(* handleClick                                                             *)
(***************************************************************************)
Call(abbrev, x, y) == [abbrev |-> abbrev, x |-> x, y |-> y]

NoEvent ==
    [kind |-> "none", clientX |-> 0, clientY |-> 0,
     rect |-> [left |-> 0, top |-> 0, width |-> 0, height |-> 0]]

ClickEvent(clientX, clientY, rect) ==
    [kind |-> "click", clientX |-> clientX, clientY |-> clientY, rect |-> rect]

\* The position of a click in canvas-internal coordinates: the client
\* position relative to the displayed rectangle, scaled by
\* canvas.width / rect.width and canvas.height / rect.height.
CanvasPoint(e, width, height) ==
    LET scaleX == width \div e.rect.width
        scaleY == height \div e.rect.height
    IN  [x |-> (e.clientX - e.rect.left) * scaleX,
         y |-> (e.clientY - e.rect.top) * scaleY]

\* handleClick without the return after a match.
MutNoReturn(map, installed, x, y) ==
    IF ~installed THEN << >>
    ELSE LET hits == {i \in 1..Len(map) : isPointInPath(map[i].path, x, y)}
         IN  (IF hits = {} THEN << >>
              ELSE << Call(SplitFirst(map[SetMin(hits)].key), x, y) >>)
             \o << Call(Null, x, y) >>

\* handleClick reporting the last matching entry instead of the first.
MutLastMatch(map, installed, x, y) ==
    IF ~installed THEN << >>
    ELSE LET hits == {i \in 1..Len(map) : isPointInPath(map[i].path, x, y)}
         IN  IF hits = {} THEN << Call(Null, x, y) >>
             ELSE << Call(SplitFirst(map[CHOOSE i \in hits : \A j \in hits : j <= i].key),
                          x, y) >>

\* The onClick invocations of one run of handleClick: none without a
\* handler; otherwise the entries of the Map are tried in insertion order,
\* the first path that contains the point is reported and the run returns;
\* with no such path the callback gets null.
handleClick(map, installed, x, y) ==
    LET scan[i \in 1..(Len(map) + 1)] ==
            IF i > Len(map) THEN << Call(Null, x, y) >>
            ELSE IF isPointInPath(map[i].path, x, y)
            THEN << Call(SplitFirst(map[i].key), x, y) >>
            ELSE scan[i + 1]
    IN  IF ~installed THEN << >> ELSE scan[1]

(***************************************************************************)
(* The regular quiz before it is started                                   *)
(***************************************************************************)
\* No key event handled by the latest step.
NoKey == [code |-> "", key |-> ""]

\* App on a screen other than the quiz: config and quizState are null and
\* the Quiz component is not mounted.
NoQuiz ==
    [screen |-> "title",
     config |-> [mode |-> "single", inputMode |-> "multiple-choice", pool |-> "none",
                 showLines |-> FALSE],
     quizState |-> [questions |-> << >>, currentIndex |-> 0, score |-> 0,
                    answers |-> << >>],
     selectedAnswer |-> 0,
     textInput |-> << >>,
     feedback |-> [present |-> FALSE, correct |-> FALSE],
     showNextButton |-> FALSE,
     currentShowLines |-> FALSE,
     lastKey |-> NoKey]

(***************************************************************************)
(* The question generators before they are called                          *)
(***************************************************************************)
\* No call of generateQuestions or generateSingleQuestion is followed.
NotGenerated ==
    [called |-> "none",
     config |-> [hemisphere |-> "both", difficulty |-> "all", customSelection |-> FALSE,
                 selectedConstellations |-> << >>, showLines |-> FALSE],
     random |-> << >>,
     recentAbbrevs |-> << >>,
     questions |-> << >>]

(***************************************************************************)
(* The sky view quiz before it is started                                  *)
(***************************************************************************)
\* SkyViewScreen is not mounted: App shows another screen.  config is the
\* skyViewConfig of App as far as SkyViewScreen reads it for the quiz.
NoSkyView ==
    [mounted |-> FALSE,
     constellationData |-> "null",
     config |-> [mode |-> "single", hemisphere |-> "both", difficulty |-> "all"],
     targetAbbrev |-> <<"null">>,
     score |-> [correct |-> 0, total |-> 0],
     feedback |-> [present |-> FALSE, correct |-> FALSE, tappedAbbrev |-> <<"null">>],
     questionQueue |-> << >>,
     recentlyAsked |-> << >>,
     isComplete |-> FALSE,
     presented |-> << >>]

(***************************************************************************)
(* State machine                                                           *)
(***************************************************************************)
NoFeedback == [present |-> FALSE, abbrev |-> Null, correct |-> FALSE]

\* The props SkyViewScreen passes on its first render, for a catalog, a
\* filter and a hemisphere setting.
InitialProps(constellations, filtered, hemisphereFilter) ==
    [constellations |-> constellations,
     filteredConstellations |-> filtered,
     highlightedAbbrev |-> Null,
     tappedFeedback |-> NoFeedback,
     showBoundaries |-> TRUE,
     showLines |-> TRUE,
     maxMagnitude |-> 60,
     backgroundStars |-> "hip",
     backgroundStarOpacity |-> 100,
     hemisphereFilter |-> hemisphereFilter,
     onClick |-> TRUE]

HemisphereFilters == {"north", "south", "both"}

\* The dependency list of the draw effect: every prop but onClick, and
\* isMobile.
EffectDeps(p, mobile) ==
    [constellations |-> p.constellations,
     filteredConstellations |-> p.filteredConstellations,
     highlightedAbbrev |-> p.highlightedAbbrev,
     tappedFeedback |-> p.tappedFeedback,
     showBoundaries |-> p.showBoundaries,
     showLines |-> p.showLines,
     maxMagnitude |-> p.maxMagnitude,
     backgroundStars |-> p.backgroundStars,
     backgroundStarOpacity |-> p.backgroundStarOpacity,
     isMobile |-> mobile,
     hemisphereFilter |-> p.hemisphereFilter]

\* After the first render: nothing drawn yet, the draw effect scheduled.
Init ==
    /\ \E c \in Catalogs, f \in Filters, h \in HemisphereFilters :
           props = InitialProps(c, f, h)
    /\ isMobile = FALSE
    /\ pending = TRUE
    /\ boundaryPaths = << >>
    /\ canvas = << >>
    /\ drawnWith = [drawn |-> FALSE, deps |-> EffectDeps(props, isMobile)]
    /\ lastEvent = NoEvent
    /\ calls = << >>
    /\ probe = [applied |-> FALSE, ra |-> 0, dec |-> 0, hemisphere |-> "north",
                cX |-> 0, cY |-> 0, x |-> 0, y |-> 0, angularDist |-> 0,
                visible |-> FALSE]
    /\ quiz = NoQuiz
    /\ skyView = NoSkyView
    /\ generated = NotGenerated

\* A step that is no click makes no callback.
Quiet == lastEvent' = NoEvent /\ calls' = << >>

\* The parent renders the canvas with changed props; a changed dependency
\* of the draw effect schedules it.
Render(p) ==
    /\ props' = p
    /\ pending' = TRUE
    /\ Quiet
    /\ UNCHANGED <<isMobile, boundaryPaths, canvas, drawnWith, probe, quiz, skyView, generated>>

\* A scheduled effect runs before the next render starts, so a render finds
\* none pending.  The catalog is loaded once and then stays loaded: this
\* action never sets it back to null.
SetConstellations ==
    \E c \in Catalogs \ {"null"} :
        /\ ~pending
        /\ props.constellations # c
        /\ Render([props EXCEPT !.constellations = c])

SetFilteredConstellations ==
    \E f \in Filters :
        /\ ~pending
        /\ props.filteredConstellations # f
        /\ Render([props EXCEPT !.filteredConstellations = f])

SetHemisphereFilter ==
    \E h \in HemisphereFilters :
        /\ ~pending
        /\ props.hemisphereFilter # h
        /\ Render([props EXCEPT !.hemisphereFilter = h])

\* onClick is no dependency of the draw effect.
SetOnClick ==
    /\ ~pending
    /\ props' = [props EXCEPT !.onClick = ~props.onClick]
    /\ Quiet
    /\ UNCHANGED <<isMobile, pending, boundaryPaths, canvas, drawnWith, probe, quiz, skyView, generated>>

\* checkMobile, on mount and on resize: setIsMobile(window.innerWidth <= 768).
checkMobile ==
    /\ ~pending
    /\ isMobile' = ~isMobile
    /\ pending' = TRUE
    /\ Quiet
    /\ UNCHANGED <<props, boundaryPaths, canvas, drawnWith, probe, quiz, skyView, generated>>

\* DrawEffect without the early return for a missing catalog.
MutDrawWithoutGuard ==
    /\ pending
    /\ pending' = FALSE
    /\ boundaryPaths' = RebuildPaths(boundaryPaths, props, isMobile)
    /\ canvas' = DrawOps(props, isMobile)
    /\ drawnWith' = [drawn |-> TRUE, deps |-> EffectDeps(props, isMobile)]
    /\ Quiet
    /\ UNCHANGED <<props, isMobile, probe, quiz, skyView, generated>>

\* The draw effect.  Without a catalog it returns before it touches the
\* canvas or the registry; otherwise it redraws and rebuilds both in full.
DrawEffect ==
    /\ pending
    /\ pending' = FALSE
    /\ IF props.constellations = "null"
       THEN UNCHANGED <<boundaryPaths, canvas, drawnWith>>
       ELSE /\ boundaryPaths' = RebuildPaths(boundaryPaths, props, isMobile)
            /\ canvas' = DrawOps(props, isMobile)
            /\ drawnWith' = [drawn |-> TRUE, deps |-> EffectDeps(props, isMobile)]
    /\ Quiet
    /\ UNCHANGED <<props, isMobile, probe, quiz, skyView, generated>>

\* The arithmetic mean of the vertices of a boundary, as (ra, dec).
Centroid(boundary) ==
    LET n == Len(boundary)
        sum[i \in 0..n] ==
            IF i = 0 THEN <<0, 0>>
            ELSE <<sum[i - 1][1] + boundary[i][1], sum[i - 1][2] + boundary[i][2]>>
    IN  <<sum[n][1] \div n, sum[n][2] \div n>>

\* The constellations of a pass that got a registered region in a hemisphere,
\* each with the canvas point its centroid projects to.
RegisteredCentroids(deps) ==
    LET hs == hemispheresToShow(deps.hemisphereFilter)
        es == Entries(deps.constellations)
    IN  { [abbrev |-> es[i].abbrev, hemisphere |-> hs[j],
           at |-> LET c == Centroid(es[i].boundary)
                      cX == centerX(hs[j], deps.hemisphereFilter, deps.isMobile)
                      cY == centerY(hs[j], deps.hemisphereFilter, deps.isMobile)
                      pt == projectToHemisphere(c[1], c[2], hs[j], cX, cY)
                  IN  [x |-> pt.x, y |-> pt.y]] :
          <<i, j>> \in { ij \in (1..Len(es)) \X (1..Len(hs)) :
              /\ IsBuilt(es[ij[1]], hs[ij[2]],
                         centerX(hs[ij[2]], deps.hemisphereFilter, deps.isMobile),
                         centerY(hs[ij[2]], deps.hemisphereFilter, deps.isMobile))
              /\ IsRegistered(deps.filteredConstellations, es[ij[1]].abbrev) } }

\* Number of steps of the grid of click positions along each canvas axis.
ClickGrid == 2

\* The page position of the displayed canvas.
RectLeft == 8
RectTop == 120

\* The canvas has style width: 100%, max-width: canvasWidth: a wide viewport
\* displays it at full size, a narrow one CSS-scaled, here to half its size.
DisplayScale(mobile) == IF mobile THEN 2 ELSE 1

\* The canvas positions a user aims at: a grid over the whole canvas,
\* corners included, and the centers of the regions of the last pass.
ClickTargets(width, height) ==
    { [x |-> (i * width) \div ClickGrid, y |-> (j * height) \div ClickGrid] :
          i \in 0..ClickGrid, j \in 0..ClickGrid }
    \cup { c.at : c \in { d \in (IF drawnWith.drawn
                                  THEN RegisteredCentroids(drawnWith.deps)
                                  ELSE {}) :
                          /\ 0 <= d.at.x /\ d.at.x <= width
                          /\ 0 <= d.at.y /\ d.at.y <= height } }

\* A click event on the canvas element, handled by handleClick.
Click ==
    \E k \in {DisplayScale(isMobile)} :
        LET width == canvasWidth(props.hemisphereFilter, isMobile)
            height == canvasHeight(props.hemisphereFilter, isMobile)
            rect == [left |-> RectLeft, top |-> RectTop,
                     width |-> width \div k, height |-> height \div k]
        IN  \E t \in ClickTargets(width, height) :
                LET e == ClickEvent(rect.left + (t.x \div k), rect.top + (t.y \div k), rect)
                    at == CanvasPoint(e, width, height)
                IN  /\ lastEvent' = e
                    /\ calls' = handleClick(boundaryPaths, props.onClick, at.x, at.y)
                    /\ UNCHANGED <<props, isMobile, pending, boundaryPaths, canvas,
                                   drawnWith, probe, quiz, skyView, generated>>

Next ==
    \/ SetConstellations
    \/ SetFilteredConstellations
    \/ SetHemisphereFilter
    \/ SetOnClick
    \/ checkMobile
    \/ DrawEffect
    \/ Click

Spec == Init /\ [][Next]_vars

(***************************************************************************)
(* The projection on its own: inputs drawn in InitProject, applied by      *)
(* Project.                                                                *)
(***************************************************************************)
RaHours == 0..23
DecDegrees == {GridDeg * k - 90 : k \in 0..(180 \div GridDeg)}
Hemispheres == {"north", "south"}

\* The centers the layout gives a hemisphere, over all filters and viewports.
CentersOf(hemisphere) ==
    { <<centerX(hemisphere, f, m), centerY(hemisphere, f, m)>> :
          f \in {g \in HemisphereFilters : g = "both" \/ g = hemisphere},
          m \in BOOLEAN }

InitProject ==
    /\ props = InitialProps("sky", << >>, "both")
    /\ isMobile = FALSE
    /\ pending = TRUE
    /\ boundaryPaths = << >>
    /\ canvas = << >>
    /\ drawnWith = [drawn |-> FALSE, deps |-> EffectDeps(props, isMobile)]
    /\ lastEvent = NoEvent
    /\ calls = << >>
    /\ \E ra \in RaHours, dec \in DecDegrees, h \in Hemispheres :
           \E c \in CentersOf(h) :
               probe = [applied |-> FALSE, ra |-> ra, dec |-> dec, hemisphere |-> h,
                        cX |-> c[1], cY |-> c[2], x |-> 0, y |-> 0,
                        angularDist |-> 0, visible |-> FALSE]
    /\ quiz = NoQuiz
    /\ skyView = NoSkyView
    /\ generated = NotGenerated

Project ==
    /\ ~probe.applied
    /\ LET pt == projectToHemisphere(probe.ra, probe.dec, probe.hemisphere,
                                     probe.cX, probe.cY)
       IN  probe' = [probe EXCEPT !.applied = TRUE, !.x = pt.x, !.y = pt.y,
                                  !.angularDist = pt.angularDist,
                                  !.visible = pt.visible]
    /\ UNCHANGED <<props, isMobile, pending, boundaryPaths, canvas, drawnWith,
                   lastEvent, calls, quiz, skyView, generated>>

NextProject == Project

SpecProject == InitProject /\ [][NextProject]_vars

(***************************************************************************)
(* Vocabulary of the properties                                            *)
(***************************************************************************)
Clicked == lastEvent.kind = "click"

\* The canvas-internal position of the latest click.
ClickAt ==
    CanvasPoint(lastEvent, canvasWidth(props.hemisphereFilter, isMobile),
                canvasHeight(props.hemisphereFilter, isMobile))

\* The inputs of the last completed pass.
Drawn == drawnWith.deps

FilteredSetOf(deps) ==
    {deps.filteredConstellations[i] : i \in 1..Len(deps.filteredConstellations)}

\* The (entry, hemisphere) pairs of the last completed pass, in the order the
\* pass visits them: hemispheres in draw order, entries in catalog order.
VisitOrder ==
    IF ~drawnWith.drawn THEN << >>
    ELSE LET hs == hemispheresToShow(Drawn.hemisphereFilter)
             es == Entries(Drawn.constellations)
         IN  [k \in 1..(Len(hs) * Len(es)) |->
                 [data |-> es[((k - 1) % Len(es)) + 1],
                  hemisphere |-> hs[((k - 1) \div Len(es)) + 1]]]

CenterOfDrawn(hemisphere) ==
    [x |-> centerX(hemisphere, Drawn.hemisphereFilter, Drawn.isMobile),
     y |-> centerY(hemisphere, Drawn.hemisphereFilter, Drawn.isMobile)]

\* The region of a visit was built (and so drawn, with showBoundaries).
VisitBuilt(v) ==
    IsBuilt(v.data, v.hemisphere, CenterOfDrawn(v.hemisphere).x,
            CenterOfDrawn(v.hemisphere).y)

\* The polygon of a visit contains a canvas point.
VisitContains(v, pt) ==
    isPointInPath(PathOf(v.data.boundary, v.hemisphere,
                         CenterOfDrawn(v.hemisphere).x,
                         CenterOfDrawn(v.hemisphere).y), pt.x, pt.y)

\* A canvas point lies in the clipping circle of a hemisphere of the last pass.
InCircle(hemisphere, pt) ==
    LET c == CenterOfDrawn(hemisphere)
        radius == hemisphereSize \div 2
    IN  (pt.x - c.x) * (pt.x - c.x) + (pt.y - c.y) * (pt.y - c.y) <= radius * radius

\* The hemisphere a registry key names.
HemisphereOfKey(key) ==
    IF SubSeq(key, Len(SplitFirst(key)) + 2, Len(key)) = Chars("north")
    THEN "north" ELSE "south"

\* The registry entries whose path contains a canvas point.
HitsAt(pt) ==
    {i \in 1..Len(boundaryPaths) : isPointInPath(boundaryPaths[i].path, pt.x, pt.y)}

\* A region of the last pass is registered when the filter of that pass is
\* empty or names its constellation.
Admitted(abbrev) ==
    FilteredSetOf(Drawn) = {} \/ abbrev \in FilteredSetOf(Drawn)

\* The visits of the last pass whose region is registered and contains pt.
VisitsHitAt(pt) ==
    {k \in 1..Len(VisitOrder) :
        /\ VisitBuilt(VisitOrder[k])
        /\ Admitted(VisitOrder[k].data.abbrev)
        /\ VisitContains(VisitOrder[k], pt)}

\* The abbrev of the first such visit, null when there is none.
ExpectedAbbrev(pt) ==
    IF VisitsHitAt(pt) = {} THEN Null
    ELSE VisitOrder[SetMin(VisitsHitAt(pt))].data.abbrev

\* The canvas shows the boundary of a visit (stroked, in any style).
Stroked(v) ==
    \E i \in 1..Len(canvas) :
        /\ canvas[i].op = "stroke"
        /\ canvas[i].abbrev = v.data.abbrev
        /\ canvas[i].hemisphere = v.hemisphere

(***************************************************************************)
(* Properties                                                              *)
(***************************************************************************)

C2_HitInsideDrawnCircle ==
    (Clicked /\ Len(calls) = 1 /\ calls[1].abbrev # Null) =>
        /\ HitsAt(ClickAt) # {}
        /\ InCircle(HemisphereOfKey(boundaryPaths[SetMin(HitsAt(ClickAt))].key), ClickAt)
        /\ \E k \in 1..Len(VisitOrder) :
               /\ VisitOrder[k].data.abbrev = calls[1].abbrev
               /\ VisitBuilt(VisitOrder[k])
               /\ InCircle(VisitOrder[k].hemisphere, ClickAt)

\* The latest click was on a corner of the canvas, outside every hemisphere
\* circle of the last pass.
CornerClick ==
    /\ Clicked
    /\ ClickAt.x \in {0, canvasWidth(props.hemisphereFilter, isMobile)}
    /\ ClickAt.y \in {0, canvasHeight(props.hemisphereFilter, isMobile)}
    /\ \A i \in 1..Len(hemispheresToShow(Drawn.hemisphereFilter)) :
           ~InCircle(hemispheresToShow(Drawn.hemisphereFilter)[i], ClickAt)

\* C3: a click on a canvas corner, far outside all hemisphere circles, always
\* invokes the callback with abbrev null.
C3_CornerClickIsNull ==
    (CornerClick /\ props.onClick) =>
        calls = << Call(Null, ClickAt.x, ClickAt.y) >>

\* C4: a click is reported with the abbrev of the first region, in
\* registration order (hemispheres in draw order, constellations in catalog
\* order), whose polygon contains the point, and with null when there is none.
C4_FirstRegisteredMatch ==
    (Clicked /\ props.onClick) =>
        calls = << Call(ExpectedAbbrev(ClickAt), ClickAt.x, ClickAt.y) >>

\* A click at a point of two overlapping registered regions of different
\* constellations, reported with the one registered first.
C4_Witness ==
    /\ Clicked /\ props.onClick /\ Len(calls) = 1
    /\ \E j, k \in VisitsHitAt(ClickAt) :
           /\ j < k
           /\ VisitOrder[j].data.abbrev # VisitOrder[k].data.abbrev
           /\ calls[1].abbrev = VisitOrder[j].data.abbrev
           /\ \A m \in VisitsHitAt(ClickAt) : j <= m

\* C5: with a handler installed every click event invokes the callback
\* exactly once, with the canvas-internal coordinates of the click, and with
\* abbrev null when no registered region contains the point; without a
\* handler there is no invocation.
C5_CallbackExactlyOnce ==
    Clicked =>
        IF props.onClick
        THEN /\ Len(calls) = 1
             /\ calls[1].x = ((lastEvent.clientX - lastEvent.rect.left)
                              * canvasWidth(props.hemisphereFilter, isMobile))
                             \div lastEvent.rect.width
             /\ calls[1].y = ((lastEvent.clientY - lastEvent.rect.top)
                              * canvasHeight(props.hemisphereFilter, isMobile))
                             \div lastEvent.rect.height
             /\ HitsAt(ClickAt) = {} => calls[1].abbrev = Null
        ELSE calls = << >>

\* A click on a CSS-scaled canvas with regions registered, none of which
\* contains the point: one invocation, with null.
C5_Witness ==
    /\ Clicked /\ props.onClick
    /\ Len(boundaryPaths) > 0 /\ HitsAt(ClickAt) = {}
    /\ lastEvent.rect.width < canvasWidth(props.hemisphereFilter, isMobile)
    /\ lastEvent.clientX > lastEvent.rect.left
    /\ calls = << Call(Null, ClickAt.x, ClickAt.y) >>

\* The registry a complete pass builds from the inputs of the last completed
\* pass.
RegistryOfLastPass ==
    IF drawnWith.drawn THEN RegisterPass(<< >>, Drawn, Drawn.isMobile) ELSE << >>

\* C6: in every interleaving of input changes, draw passes and clicks, the
\* registry is the whole registry of the most recent completed draw pass,
\* never a part of it and never a mix of two passes, and a click is answered
\* from it.
C6_ClickReadsLastCompletedPass ==
    /\ boundaryPaths = RegistryOfLastPass
    /\ Clicked =>
           calls = handleClick(RegistryOfLastPass, props.onClick, ClickAt.x, ClickAt.y)

\* A click handled after an input change and before the draw pass it
\* schedules: answered from the last completed pass, not as the pending
\* pass would answer it.
C6_Witness ==
    /\ Clicked /\ pending /\ drawnWith.drawn /\ props.onClick
    /\ props.constellations # "null"
    /\ calls # handleClick(RegisterPass(<< >>, props, isMobile), TRUE, ClickAt.x, ClickAt.y)

\* C7: a projected point is visible exactly when its angular distance from
\* the pole of the view is at most 90 degrees: dec >= 0 in the north view,
\* dec <= 0 in the south view, whatever ra; the equator is visible in both.
C7_VisibleWithin90 ==
    probe.applied =>
        /\ probe.angularDist =
               (IF probe.hemisphere = "north" THEN 90 - probe.dec ELSE 90 + probe.dec)
        /\ probe.visible <=> (IF probe.hemisphere = "north"
                              THEN probe.dec >= 0 ELSE probe.dec <= 0)

\* A point of the equator projected into the south view: visible.
C7_Witness ==
    /\ probe.applied /\ probe.dec = 0 /\ probe.hemisphere = "south"
    /\ probe.ra = 7 /\ probe.visible

\* C8: the pole of the view projects exactly to the center of the
\* hemisphere, for every ra.
C8_PoleIsCenter ==
    (probe.applied /\ probe.dec = centerDecOf(probe.hemisphere)) =>
        (probe.x = probe.cX /\ probe.y = probe.cY)

\* The south pole projected into the south view at a right ascension that is
\* not 0.
C8_Witness ==
    /\ probe.applied /\ probe.hemisphere = "south" /\ probe.dec = 0 - 90
    /\ probe.ra = 5 /\ probe.x = probe.cX /\ probe.y = probe.cY

\* C9: a click at the projection of the centroid of the boundary of a
\* constellation registered in a shown hemisphere is reported with that
\* constellation's abbrev.
C9_CentroidClickReportsOwn ==
    (Clicked /\ props.onClick /\ drawnWith.drawn) =>
        \A c \in RegisteredCentroids(Drawn) :
            c.at = ClickAt => calls = << Call(c.abbrev, ClickAt.x, ClickAt.y) >>

(***************************************************************************)
(* Star drawing: the sky view under changes of the star settings           *)
(***************************************************************************)
\* maxMagnitude settings, in tenths of a magnitude (the setup slider runs
\* from 0 to 14).
MaxMagnitudes == {0, 30, 60, 140}

\* The backgroundStarOpacity prop SkyViewScreen passes:
\* config.showBackgroundStars ? config.backgroundStarOpacity : 0
BackgroundStarOpacityProp(showBackgroundStars, backgroundStarOpacity) ==
    IF showBackgroundStars THEN backgroundStarOpacity ELSE 0

\* backgroundStarOpacity settings (0 when background stars are switched off).
Opacities ==
    { BackgroundStarOpacityProp(show, o) : show \in BOOLEAN, o \in {0, 50, 100} }

StarCatalogs == {"none", "hip"}

SetMaxMagnitude ==
    \E m \in MaxMagnitudes :
        /\ ~pending
        /\ props.maxMagnitude # m
        /\ Render([props EXCEPT !.maxMagnitude = m])

SetBackgroundStars ==
    \E b \in StarCatalogs :
        /\ ~pending
        /\ props.backgroundStars # b
        /\ Render([props EXCEPT !.backgroundStars = b])

SetBackgroundStarOpacity ==
    \E o \in Opacities :
        /\ ~pending
        /\ props.backgroundStarOpacity # o
        /\ Render([props EXCEPT !.backgroundStarOpacity = o])

InitStars ==
    /\ \E c \in {"sky", "overlap"}, h \in HemisphereFilters :
           props = InitialProps(c, << >>, h)
    /\ isMobile = FALSE
    /\ pending = TRUE
    /\ boundaryPaths = << >>
    /\ canvas = << >>
    /\ drawnWith = [drawn |-> FALSE, deps |-> EffectDeps(props, isMobile)]
    /\ lastEvent = NoEvent
    /\ calls = << >>
    /\ probe = [applied |-> FALSE, ra |-> 0, dec |-> 0, hemisphere |-> "north",
                cX |-> 0, cY |-> 0, x |-> 0, y |-> 0, angularDist |-> 0,
                visible |-> FALSE]
    /\ quiz = NoQuiz
    /\ skyView = NoSkyView
    /\ generated = NotGenerated

NextStars ==
    \/ SetMaxMagnitude
    \/ SetBackgroundStars
    \/ SetBackgroundStarOpacity
    \/ SetHemisphereFilter
    \/ checkMobile
    \/ DrawEffect

SpecStars == InitStars /\ [][NextStars]_vars

\* The canvas holds an operation of a kind for a star of a hemisphere.
HasOp(op, hemisphere, abbrev, index) ==
    \E i \in 1..Len(canvas) :
        /\ canvas[i].op = op
        /\ canvas[i].hemisphere = hemisphere
        /\ canvas[i].abbrev = abbrev
        /\ canvas[i].index = index

\* A star is visible in a hemisphere of the last pass.
VisibleInDrawn(star, hemisphere) ==
    projectToHemisphere(star.ra, star.dec, hemisphere,
                        CenterOfDrawn(hemisphere).x, CenterOfDrawn(hemisphere).y).visible

\* C10: in each shown hemisphere a star is drawn exactly when it is visible
\* there and its magnitude is at most maxMagnitude (and, for a background
\* star, the opacity is above 0), for every magnitude, 0 and negative ones
\* included.
C10_StarDrawnIffVisibleAndBright ==
    drawnWith.drawn =>
        \A j \in 1..Len(hemispheresToShow(Drawn.hemisphereFilter)) :
            LET h == hemispheresToShow(Drawn.hemisphereFilter)[j]
                bg == StarCatalog(Drawn.backgroundStars)
                es == Entries(Drawn.constellations)
            IN  /\ \A i \in 1..Len(bg) :
                       HasOp("bgStar", h, Null, i) <=>
                           /\ VisibleInDrawn(bg[i], h)
                           /\ bg[i].magnitude <= Drawn.maxMagnitude
                           /\ Drawn.backgroundStarOpacity > 0
                /\ \A e \in 1..Len(es) :
                       \A i \in 1..Len(es[e].stars) :
                           HasOp("star", h, es[e].abbrev, i) <=>
                               /\ VisibleInDrawn(es[e].stars[i], h)
                               /\ es[e].stars[i].magnitude <= Drawn.maxMagnitude

\* The star operations among a sequence of drawing operations.
StarsDrawnIn(ops) ==
    { ops[i] : i \in {k \in 1..Len(ops) : ops[k].op \in {"bgStar", "star"}} }

\* The stars a pass draws from the inputs of the last pass with maxMagnitude
\* set to m and everything else as it was.
StarsDrawnAt(m) ==
    StarsDrawnIn(DrawOps([Drawn EXCEPT !.maxMagnitude = m], Drawn.isMobile))

\* C11: the magnitude filter is monotonic: with the catalog and every other
\* input of the last pass fixed, if m1 <= m2 the stars drawn with
\* maxMagnitude = m1 are a subset of those drawn with maxMagnitude = m2; the
\* canvas holds the stars of its own maxMagnitude.
C11_MagnitudeFilterMonotonic ==
    drawnWith.drawn =>
        /\ StarsDrawnIn(canvas) = StarsDrawnAt(Drawn.maxMagnitude)
        /\ \A m1, m2 \in MaxMagnitudes :
               m1 <= m2 => StarsDrawnAt(m1) \subseteq StarsDrawnAt(m2)

\* A pass at maxMagnitude 3.0 that draws some stars, and fewer than the pass
\* at 6.0 would.
C11_Witness ==
    /\ drawnWith.drawn /\ Drawn.maxMagnitude = 30
    /\ StarsDrawnIn(canvas) # {}
    /\ StarsDrawnIn(canvas) # StarsDrawnAt(60)
    /\ StarsDrawnAt(0) # StarsDrawnIn(canvas)

\* The constellation star operations (glow included) of a sequence of
\* drawing operations, in order.
ConstellationStarOps(ops) == SelectSeq(ops, LAMBDA o : o.op \in {"glow", "star"})

\* C12: when backgroundStarOpacity is 0 no background star is drawn in any
\* hemisphere, whatever maxMagnitude and the star catalog are, and the
\* constellation stars are those drawn at full opacity.
C12_ZeroOpacityHidesBackground ==
    (drawnWith.drawn /\ Drawn.backgroundStarOpacity = 0) =>
        /\ \A i \in 1..Len(canvas) : canvas[i].op # "bgStar"
        /\ ConstellationStarOps(canvas) =
               ConstellationStarOps(DrawOps([Drawn EXCEPT !.backgroundStarOpacity = 100],
                                            Drawn.isMobile))

\* A pass at opacity 0 with a star catalog loaded whose stars all pass the
\* magnitude filter, and with constellation stars on the canvas.
C12_Witness ==
    /\ drawnWith.drawn /\ Drawn.backgroundStarOpacity = 0
    /\ Drawn.backgroundStars = "hip" /\ Drawn.maxMagnitude = 140
    /\ \E i \in 1..Len(canvas) : canvas[i].op = "star"
    /\ \A i \in 1..Len(canvas) : canvas[i].op # "bgStar"

\* The circles of the last pass, one for each clip on the canvas, in order.
DrawnCircles ==
    LET clips == SelectSeq(canvas, LAMBDA o : o.op = "clip")
    IN  [i \in 1..Len(clips) |->
            ClipCircle(clips[i].hemisphere, Drawn.hemisphereFilter, Drawn.isMobile)]

\* The size of the canvas element at the last pass.
DrawnCanvasSize ==
    [width |-> canvasWidth(Drawn.hemisphereFilter, Drawn.isMobile),
     height |-> canvasHeight(Drawn.hemisphereFilter, Drawn.isMobile)]

\* The layout of the last pass is the one the table below gives for its
\* viewport class and hemisphere filter: one circle of the selected
\* hemisphere for a single-hemisphere filter, the same on both viewport
\* classes; for 'both' two circles, north then south, stacked on a narrow
\* viewport (same centerX) and side by side on a wide one (same centerY).
LayoutAsTabulated ==
    LET circle(h, x, y) == [hemisphere |-> h, centerX |-> x, centerY |-> y, radius |-> 400]
    IN  IF Drawn.hemisphereFilter # "both"
        THEN /\ DrawnCircles = << circle(Drawn.hemisphereFilter, 410, 440) >>
             /\ DrawnCanvasSize = [width |-> 820, height |-> 860]
        ELSE IF Drawn.isMobile
        THEN /\ DrawnCircles = << circle("north", 410, 440), circle("south", 410, 1290) >>
             /\ DrawnCanvasSize = [width |-> 820, height |-> 1700]
        ELSE /\ DrawnCircles = << circle("north", 410, 440), circle("south", 1230, 440) >>
             /\ DrawnCanvasSize = [width |-> 1640, height |-> 860]

ClearConstellations ==
    /\ ~pending
    /\ props.constellations # "null"
    /\ Render([props EXCEPT !.constellations = "null"])

NextCatalog ==
    \/ SetConstellations
    \/ ClearConstellations
    \/ SetFilteredConstellations
    \/ SetHemisphereFilter
    \/ checkMobile
    \/ DrawEffect

SpecCatalog == Init /\ [][NextCatalog]_vars

\* A step is a run of the draw effect.
DrawPassStep == pending /\ ~pending'

\* The operations that draw the base of a hemisphere view: clip, background
\* fill, background stars, restore, border circle.
BaseOps == {"clip", "background", "bgStar", "restore", "border"}

RegionsOf(p, mobile) ==
    LET hs == hemispheresToShow(p.hemisphereFilter)
        es == Entries(p.constellations)
        cX(j) == centerX(hs[j], p.hemisphereFilter, mobile)
        cY(j) == centerY(hs[j], p.hemisphereFilter, mobile)
    IN  { [key |-> MakeKey(es[ij[1]].abbrev, hs[ij[2]]),
           path |-> PathOf(es[ij[1]].boundary, hs[ij[2]], cX(ij[2]), cY(ij[2]))] :
          ij \in { ij \in (1..Len(es)) \X (1..Len(hs)) :
                     /\ IsBuilt(es[ij[1]], hs[ij[2]], cX(ij[2]), cY(ij[2]))
                     /\ IsRegistered(p.filteredConstellations, es[ij[1]].abbrev) } }

\* C17: after every render triggered by a change of inputs, once its draw
\* pass has run, the registry holds exactly the regions derived from the
\* current inputs, each once: no region built from earlier inputs survives,
\* also after the catalog became null or the hemisphere filter changed.
C17_RegistryMatchesCurrentInputs ==
    ~pending =>
        /\ {boundaryPaths[i] : i \in 1..Len(boundaryPaths)} = RegionsOf(props, isMobile)
        /\ Len(boundaryPaths) = Cardinality(RegionsOf(props, isMobile))

\* A boundary calls for a region in a hemisphere: three vertices or more, at
\* least one of them on the hemisphere's side of the equator or on it.
CallsForRegion(boundary, hemisphere) ==
    /\ Len(boundary) >= 3
    /\ \E i \in 1..Len(boundary) :
           IF hemisphere = "north" THEN boundary[i][2] >= 0 ELSE boundary[i][2] <= 0

\* The registry entries under the key of a visit.
EntriesOfVisit(v) ==
    {i \in 1..Len(boundaryPaths) :
        boundaryPaths[i].key = MakeKey(v.data.abbrev, v.hemisphere)}

\* A vertex of a boundary, projected into the view of a visit.
VertexOfVisit(v, i) ==
    projectToHemisphere(v.data.boundary[i][1], v.data.boundary[i][2], v.hemisphere,
                        CenterOfDrawn(v.hemisphere).x, CenterOfDrawn(v.hemisphere).y)

\* C18: in the last pass, for each shown hemisphere and each constellation,
\* a region is built (stroked with showBoundaries, registered when the
\* filter admits it) exactly when the boundary has at least 3 vertices and
\* at least one of them is visible in that hemisphere; its polygon is every
\* boundary vertex in boundary order, those beyond 90 degrees included; a
\* constellation with fewer than 3 vertices gets no region while its stars
\* and lines are drawn like those of any other.
C18_RegionBuiltIffThreeAndVisible ==
    drawnWith.drawn =>
        \A k \in 1..Len(VisitOrder) :
            LET v == VisitOrder[k]
                due == CallsForRegion(v.data.boundary, v.hemisphere)
            IN  /\ Drawn.showBoundaries => (Stroked(v) <=> due)
                /\ EntriesOfVisit(v) # {} <=> (due /\ Admitted(v.data.abbrev))
                /\ \A e \in EntriesOfVisit(v) :
                       /\ Len(boundaryPaths[e].path) = Len(v.data.boundary)
                       /\ \A i \in 1..Len(v.data.boundary) :
                              /\ boundaryPaths[e].path[i].x = VertexOfVisit(v, i).x
                              /\ boundaryPaths[e].path[i].y = VertexOfVisit(v, i).y
                /\ \A i \in 1..Len(v.data.stars) :
                       HasOp("star", v.hemisphere, v.data.abbrev, i)
                           <=> StarIsDrawn(v.data.stars[i], Drawn.maxMagnitude, v.hemisphere,
                                           CenterOfDrawn(v.hemisphere).x,
                                           CenterOfDrawn(v.hemisphere).y)
                /\ \A i \in 1..Len(v.data.lines) :
                       Drawn.showLines =>
                           (HasOp("line", v.hemisphere, v.data.abbrev, i)
                               <=> \E s \in {v.data.lines[i][1] + 1, v.data.lines[i][2] + 1} :
                                       VisibleInDrawn(v.data.stars[s], v.hemisphere))

\* A pass over the catalog with LYN (two boundary vertices) and OPH (across
\* the equator): LYN has no region but a star and a line in the north view;
\* OPH has a region there with a vertex beyond the 90-degree cutoff; PAV has
\* none there.
C18_Witness ==
    /\ drawnWith.drawn /\ Drawn.constellations = "sky"
    /\ Drawn.hemisphereFilter = "both" /\ FilteredSetOf(Drawn) = {}
    /\ \E k \in 1..Len(VisitOrder) :
           /\ VisitOrder[k].data.abbrev = LYN /\ VisitOrder[k].hemisphere = "north"
           /\ EntriesOfVisit(VisitOrder[k]) = {} /\ ~Stroked(VisitOrder[k])
           /\ HasOp("star", "north", LYN, 1) /\ HasOp("line", "north", LYN, 1)
    /\ \E k \in 1..Len(VisitOrder) :
           /\ VisitOrder[k].data.abbrev = OPH /\ VisitOrder[k].hemisphere = "north"
           /\ \E e \in EntriesOfVisit(VisitOrder[k]) :
                  /\ Len(boundaryPaths[e].path) = 4
                  /\ ~VertexOfVisit(VisitOrder[k], 3).visible
                  /\ ~InCircle("north", boundaryPaths[e].path[3])
    /\ \E k \in 1..Len(VisitOrder) :
           /\ VisitOrder[k].data.abbrev = PAV /\ VisitOrder[k].hemisphere = "north"
           /\ EntriesOfVisit(VisitOrder[k]) = {} /\ ~Stroked(VisitOrder[k])

(***************************************************************************)
(* The sky view under changes of the interaction state and the toggles     *)
(***************************************************************************)
\* highlightedAbbrev values: null, or a constellation of the catalog.
Highlights == {Null, OPH, BOO}

\* tappedFeedback values: null, or { abbrev, correct } with the abbrev that
\* was tapped (null for empty space).
Feedbacks ==
    {NoFeedback}
    \cup { [present |-> TRUE, abbrev |-> a, correct |-> c] :
              a \in {Null, UMA, OPH, BOO}, c \in BOOLEAN }

\* The parent renders with another highlightedAbbrev and tappedFeedback.
SetFeedback ==
    \E h \in Highlights, t \in Feedbacks :
        /\ ~pending
        /\ props.highlightedAbbrev # h \/ props.tappedFeedback # t
        /\ Render([props EXCEPT !.highlightedAbbrev = h, !.tappedFeedback = t])

SetShowBoundaries ==
    /\ ~pending
    /\ Render([props EXCEPT !.showBoundaries = ~props.showBoundaries])

SetShowLines ==
    /\ ~pending
    /\ Render([props EXCEPT !.showLines = ~props.showLines])

NextFeedback ==
    \/ SetFeedback
    \/ SetShowBoundaries
    \/ SetShowLines
    \/ SetHemisphereFilter
    \/ DrawEffect

SpecFeedback == InitStars /\ [][NextFeedback]_vars

\* The place of a drawing operation in the order of a hemisphere's pass.
OpRank(op) ==
    CASE op = "clip" -> 1
      [] op = "background" -> 2
      [] op = "bgStar" -> 3
      [] op \in {"fill", "stroke"} -> 4
      [] op = "line" -> 5
      [] op \in {"glow", "star"} -> 6
      [] op = "restore" -> 7
      [] op = "border" -> 8

\* The place of a hemisphere among the hemispheres of the last pass.
HemisphereIndex(hemisphere) ==
    CHOOSE j \in 1..Len(hemispheresToShow(Drawn.hemisphereFilter)) :
        hemispheresToShow(Drawn.hemisphereFilter)[j] = hemisphere

\* C19: on the canvas of a pass every operation is followed by one of the
\* same hemisphere and of the same or a later step, or by one of a later
\* hemisphere, so that the operations of one hemisphere all come before
\* those of the next, and within a hemisphere in the order clip,
\* background fill, background stars, boundary regions, constellation
\* lines, constellation stars, release of the clip, border circle, each of
\* clip, background fill, release and border exactly once.
C19_DrawOrder ==
    drawnWith.drawn =>
        /\ \A i \in 1..(Len(canvas) - 1) :
               \/ HemisphereIndex(canvas[i].hemisphere)
                      < HemisphereIndex(canvas[i + 1].hemisphere)
               \/ /\ canvas[i].hemisphere = canvas[i + 1].hemisphere
                  /\ OpRank(canvas[i].op) <= OpRank(canvas[i + 1].op)
        /\ \A k \in 1..Len(hemispheresToShow(Drawn.hemisphereFilter)) :
               \A op \in {"clip", "background", "restore", "border"} :
                   Cardinality({i \in 1..Len(canvas) :
                       /\ canvas[i].op = op
                       /\ canvas[i].hemisphere =
                              hemispheresToShow(Drawn.hemisphereFilter)[k]}) = 1

\* A pass over both hemispheres with every kind of operation in each.
C19_Witness ==
    /\ drawnWith.drawn /\ Drawn.hemisphereFilter = "both"
    /\ \A h \in {"north", "south"} :
           \A op \in {"clip", "background", "bgStar", "fill", "stroke", "line",
                       "glow", "star", "restore", "border"} :
               \E i \in 1..Len(canvas) : canvas[i].op = op /\ canvas[i].hemisphere = h

\* The colors of the fills a visit's region received on the canvas, one
\* entry per fill.
FillsOf(v) ==
    SelectSeq(canvas, LAMBDA o : /\ o.op = "fill"
                                 /\ o.abbrev = v.data.abbrev
                                 /\ o.hemisphere = v.hemisphere)

\* C20: in a pass with showBoundaries no region is filled twice, and a
\* built region whose abbrev is tappedFeedback.abbrev has the one fill green
\* when tappedFeedback.correct and red otherwise, never the highlight blue,
\* also when it is the highlighted target.
C20_TappedFillExcludesHighlight ==
    (drawnWith.drawn /\ Drawn.showBoundaries) =>
        \A k \in 1..Len(VisitOrder) :
            LET v == VisitOrder[k]
            IN  /\ Len(FillsOf(v)) <= 1
                /\ ( /\ VisitBuilt(v)
                     /\ Drawn.tappedFeedback.present
                     /\ v.data.abbrev = Drawn.tappedFeedback.abbrev ) =>
                       /\ Len(FillsOf(v)) = 1
                       /\ FillsOf(v)[1].color =
                              (IF Drawn.tappedFeedback.correct THEN "green" ELSE "red")

\* A pass in which the tapped region is also the highlighted target and the
\* tap counts as wrong: the region is red, another region keeps its gray
\* outline without a fill.
C20_Witness ==
    /\ drawnWith.drawn /\ Drawn.showBoundaries
    /\ Drawn.tappedFeedback.present /\ ~Drawn.tappedFeedback.correct
    /\ Drawn.highlightedAbbrev = Drawn.tappedFeedback.abbrev
    /\ \E k \in 1..Len(VisitOrder) :
           /\ VisitBuilt(VisitOrder[k])
           /\ VisitOrder[k].data.abbrev = Drawn.tappedFeedback.abbrev
           /\ Len(FillsOf(VisitOrder[k])) = 1
           /\ FillsOf(VisitOrder[k])[1].color = "red"
    /\ \E k \in 1..Len(VisitOrder) :
           VisitBuilt(VisitOrder[k]) /\ Len(FillsOf(VisitOrder[k])) = 0

(***************************************************************************)
(* The regular quiz: App's quiz handlers and the Quiz screen               *)
(***************************************************************************)
LEO == <<"L", "e", "o">>
LYR == <<"L", "y", "r">>
ARA == <<"A", "r", "a">>
CRU == <<"C", "r", "u">>
VEL == <<"V", "e", "l">>
PUP == <<"P", "u", "p">>

\* A catalog entry as a question carries it: abbrev, name, displayName
\* (formatName without English names: the name) and hemisphere.
Constellation(abbrev) ==
    LET name == IF abbrev = LEO THEN <<"L", "e", "o">>
                ELSE IF abbrev = LYR THEN <<"L", "y", "r", "a">>
                ELSE IF abbrev = ARA THEN <<"A", "r", "a">>
                ELSE IF abbrev = VEL THEN <<"V", "e", "l", "a">>
                ELSE IF abbrev = PUP THEN <<"P", "u", "p", "p", "i", "s">>
                ELSE <<"C", "r", "u", "x">>
    IN  [abbrev |-> abbrev, name |-> name, displayName |-> name,
         hemisphere |-> IF abbrev \in {LEO, LYR} THEN "north" ELSE "south"]

\* One answer choice: { abbrev, name, correct }.
Choice(abbrev, correct) ==
    [abbrev |-> abbrev, name |-> Constellation(abbrev).displayName, correct |-> correct]

\* One question: its constellation first in `order`, which lists the
\* abbrevs of the choices as the shuffle left them.
Question(abbrev, order, showLines) ==
    [constellation |-> Constellation(abbrev),
     choices |-> [i \in 1..Len(order) |-> Choice(order[i], order[i] = abbrev)],
     showLines |-> showLines]

\* Question lists generateQuestions can return: "pair" for a filtered pool
\* of two constellations (two choices each), "four" for a pool of four.
QuestionList(pool, showLines) ==
    IF pool = "pair"
    THEN << Question(LEO, <<LEO, ARA>>, showLines),
            Question(ARA, <<LEO, ARA>>, showLines) >>
    ELSE IF pool = "four"
    THEN << Question(LYR, <<ARA, CRU, LEO, LYR>>, showLines),
            Question(CRU, <<CRU, LEO, ARA, LYR>>, showLines),
            Question(LEO, <<ARA, LEO, LYR, CRU>>, showLines),
            Question(ARA, <<LYR, CRU, ARA, LEO>>, showLines) >>
    ELSE << >>

\* An endless quiz is followed until it has this many questions.
MaxQuestions == 3

\* String.prototype.toLowerCase, on the letters of the names.
ToLowerCase(str) ==
    [i \in 1..Len(str) |->
        CASE str[i] = "L" -> "l"
          [] str[i] = "A" -> "a"
          [] str[i] = "C" -> "c"
          [] str[i] = "E" -> "e"
          [] str[i] = "O" -> "o"
          [] OTHER -> str[i]]

\* String.prototype.trim: leading and trailing blanks removed.
Trim(str) ==
    LET solid == {i \in 1..Len(str) : str[i] # " "}
    IN  IF solid = {} THEN << >>
        ELSE SubSeq(str, SetMin(solid), CHOOSE m \in solid : \A n \in solid : n <= m)

\* What a user may have typed into the text input.
TextInputs ==
    { << >>, <<" ">>, <<" ", "L", "E", "O", " ">>, <<"a", "r", "a">>, <<"l", "y", "r">> }

\* The keydown events of the model: e.code and e.key.
KeyEvent(code, key) == [code |-> code, key |-> key]

Keys ==
    { KeyEvent("Digit1", "1"), KeyEvent("Digit2", "2"), KeyEvent("Digit3", "3"),
      KeyEvent("Numpad4", "4"), KeyEvent("Digit5", "5"), KeyEvent("Space", " "),
      KeyEvent("Enter", "Enter"), KeyEvent("Escape", "Escape"), KeyEvent("KeyA", "a") }

\* parseInt(e.key); NaN, which fails every comparison, is kept as -1.
ParseInt(key) ==
    CASE key = "0" -> 0 [] key = "1" -> 1 [] key = "2" -> 2 [] key = "3" -> 3
      [] key = "4" -> 4 [] key = "5" -> 5 [] key = "6" -> 6 [] key = "7" -> 7
      [] key = "8" -> 8 [] key = "9" -> 9 [] OTHER -> 0 - 1

\* quizState.questions[quizState.currentIndex]
currentQuestion(q) == q.quizState.questions[q.quizState.currentIndex + 1]

isTextMode(q) == q.config.inputMode = "text"

\* handleAnswer raising the score for every answer.
MutScoreAlways(quizState, isCorrect, userAnswer, correctAnswer) ==
    [quizState EXCEPT
        !.score = quizState.score + 1,
        !.answers = Append(quizState.answers,
                           [constellation |-> correctAnswer,
                            userAnswer |-> userAnswer,
                            correct |-> isCorrect])]

\* App.handleAnswer: the answer is appended, the score raised when correct.
handleAnswer(quizState, isCorrect, userAnswer, correctAnswer) ==
    [quizState EXCEPT
        !.score = IF isCorrect THEN quizState.score + 1 ELSE quizState.score,
        !.answers = Append(quizState.answers,
                           [constellation |-> correctAnswer,
                            userAnswer |-> userAnswer,
                            correct |-> isCorrect])]

\* handleMultipleChoiceAnswer(choices[index - 1])
handleMultipleChoiceAnswer(q, index) ==
    LET choice == currentQuestion(q).choices[index]
    IN  IF q.feedback.present THEN q
        ELSE [q EXCEPT
                !.selectedAnswer = index,
                !.currentShowLines = IF ~currentQuestion(q).showLines THEN TRUE ELSE @,
                !.quizState = handleAnswer(q.quizState, choice.correct, choice.name,
                                           currentQuestion(q).constellation.displayName),
                !.feedback = [present |-> TRUE, correct |-> choice.correct],
                !.showNextButton = TRUE]

\* handleTextInputSubmit
handleTextInputSubmit(q) ==
    LET userAnswer == ToLowerCase(Trim(q.textInput))
        correctAnswer == ToLowerCase(currentQuestion(q).constellation.name)
        correctAbbrev == ToLowerCase(currentQuestion(q).constellation.abbrev)
        isCorrect == userAnswer = correctAnswer \/ userAnswer = correctAbbrev
    IN  IF q.feedback.present \/ Trim(q.textInput) = << >> THEN q
        ELSE [q EXCEPT
                !.currentShowLines = IF ~currentQuestion(q).showLines THEN TRUE ELSE @,
                !.quizState = handleAnswer(q.quizState, isCorrect, q.textInput,
                                           currentQuestion(q).constellation.displayName),
                !.feedback = [present |-> TRUE, correct |-> isCorrect],
                !.showNextButton = TRUE]

\* The effect on [quizState.currentIndex, currentQuestion.showLines]: the
\* state of the Quiz screen is reset for the question it now shows.
ResetForQuestion(q) ==
    [q EXCEPT !.selectedAnswer = 0,
              !.textInput = << >>,
              !.feedback = [present |-> FALSE, correct |-> FALSE],
              !.showNextButton = FALSE,
              !.currentShowLines = currentQuestion(q).showLines]

\* recentAbbrevs of App.nextQuestion: the abbrevs of the questions the last
\* three answers belong to, found by name.
RecentAbbrevs(quizState) ==
    LET n == Len(quizState.answers)
        last == SubSeq(quizState.answers, Max2(1, n - 2), n)
    IN  { quizState.questions[i].constellation.abbrev :
            i \in { j \in 1..Len(quizState.questions) :
                      \E a \in 1..Len(last) :
                          quizState.questions[j].constellation.displayName
                              = last[a].constellation } }

\* The questions generateSingleQuestion may return: one of the pool that
\* was not asked recently, or any of the pool when all were.
NewQuestions(q) ==
    LET list == QuestionList(q.config.pool, q.config.showLines)
        pool == {list[i] : i \in 1..Len(list)}
        candidates == {x \in pool : x.constellation.abbrev
                                        \notin RecentAbbrevs(q.quizState)}
    IN  IF candidates = {} THEN pool ELSE candidates

\* nextQuestion without the endless branch.
MutEndlessEnds(q, newQuestion) ==
    IF q.quizState.currentIndex + 1 < Len(q.quizState.questions)
    THEN ResetForQuestion([q EXCEPT !.quizState.currentIndex = @ + 1])
    ELSE [q EXCEPT !.screen = "results"]

\* App.nextQuestion, with the re-render and reset effect that follow a
\* change of the question.
nextQuestion(q, newQuestion) ==
    IF q.quizState.currentIndex + 1 < Len(q.quizState.questions)
    THEN ResetForQuestion([q EXCEPT !.quizState.currentIndex = @ + 1])
    ELSE IF q.config.mode = "endless"
    THEN ResetForQuestion([q EXCEPT
             !.quizState.questions = Append(@, newQuestion),
             !.quizState.currentIndex = @ + 1])
    ELSE [q EXCEPT !.screen = "results"]

\* handleNext: setCurrentShowLines for the next question, then onNext().
handleNext(q, newQuestion) == nextQuestion(q, newQuestion)

\* handleKeyDown without the showNextButton test on Space and Enter.
MutKeyAlwaysAdvances(q, e, newQuestion) ==
    IF e.code = "Escape" THEN [q EXCEPT !.screen = "setup"]
    ELSE IF e.code = "Space" \/ e.code = "Enter"
    THEN handleNext(q, newQuestion)
    ELSE IF ~isTextMode(q) /\ ~q.feedback.present
    THEN LET num == ParseInt(e.key)
         IN  IF num >= 1 /\ num <= 4 /\ num <= Len(currentQuestion(q).choices)
             THEN handleMultipleChoiceAnswer(q, num)
             ELSE q
    ELSE q

\* handleKeyDown without the test for text mode.
MutDigitsInTextMode(q, e, newQuestion) ==
    IF e.code = "Escape" THEN [q EXCEPT !.screen = "setup"]
    ELSE IF (e.code = "Space" \/ e.code = "Enter") /\ q.showNextButton
    THEN handleNext(q, newQuestion)
    ELSE IF ~q.feedback.present
    THEN LET num == ParseInt(e.key)
         IN  IF num >= 1 /\ num <= 4 /\ num <= Len(currentQuestion(q).choices)
             THEN handleMultipleChoiceAnswer(q, num)
             ELSE q
    ELSE q

\* The keydown listener of the Quiz screen.
handleKeyDown(q, e, newQuestion) ==
    IF e.code = "Escape" THEN [q EXCEPT !.screen = "setup"]
    ELSE IF (e.code = "Space" \/ e.code = "Enter") /\ q.showNextButton
    THEN handleNext(q, newQuestion)
    ELSE IF ~isTextMode(q) /\ ~q.feedback.present
    THEN LET num == ParseInt(e.key)
         IN  IF num >= 1 /\ num <= 4 /\ num <= Len(currentQuestion(q).choices)
             THEN handleMultipleChoiceAnswer(q, num)
             ELSE q
    ELSE q

\* App.startQuiz for a configuration, and the first render of Quiz.
StartedQuiz(mode, inputMode, pool, showLines) ==
    ResetForQuestion(
        [NoQuiz EXCEPT
            !.screen = "quiz",
            !.config = [mode |-> mode, inputMode |-> inputMode, pool |-> pool,
                        showLines |-> showLines],
            !.quizState = [questions |-> QuestionList(pool, showLines),
                           currentIndex |-> 0, score |-> 0, answers |-> << >>]])

InitQuiz ==
    /\ props = InitialProps("null", << >>, "both")
    /\ isMobile = FALSE
    /\ pending = FALSE
    /\ boundaryPaths = << >>
    /\ canvas = << >>
    /\ drawnWith = [drawn |-> FALSE, deps |-> EffectDeps(props, isMobile)]
    /\ lastEvent = NoEvent
    /\ calls = << >>
    /\ probe = [applied |-> FALSE, ra |-> 0, dec |-> 0, hemisphere |-> "north",
                cX |-> 0, cY |-> 0, x |-> 0, y |-> 0, angularDist |-> 0,
                visible |-> FALSE]
    /\ \E mode \in {"single", "endless"}, inputMode \in {"multiple-choice", "text"},
          pool \in {"pair", "four"}, showLines \in BOOLEAN :
           quiz = StartedQuiz(mode, inputMode, pool, showLines)
    /\ skyView = NoSkyView
    /\ generated = NotGenerated

\* The Quiz screen is mounted.
QuizShown == quiz.screen = "quiz"

\* Advancing now would append a question to an endless quiz.
WouldAppend(q) ==
    /\ q.config.mode = "endless"
    /\ q.quizState.currentIndex + 1 = Len(q.quizState.questions)

\* An endless quiz is followed until it has MaxQuestions questions.
WithinBound(q) == ~WouldAppend(q) \/ Len(q.quizState.questions) < MaxQuestions

\* A keydown event on the window.
KeyDown ==
    \E e \in Keys :
        \E newQuestion \in NewQuestions(quiz) :
            /\ QuizShown
            /\ (e.code \in {"Space", "Enter"} /\ quiz.showNextButton) => WithinBound(quiz)
            /\ quiz' = [handleKeyDown(quiz, e, newQuestion) EXCEPT !.lastKey = e]
            /\ UNCHANGED <<skyVars, skyView, generated>>

\* A click on an answer button (disabled once feedback is shown).
ClickChoice ==
    \E index \in 1..4 :
        /\ QuizShown
        /\ ~isTextMode(quiz)
        /\ ~quiz.feedback.present
        /\ index <= Len(currentQuestion(quiz).choices)
        /\ quiz' = [handleMultipleChoiceAnswer(quiz, index) EXCEPT !.lastKey = NoKey]
        /\ UNCHANGED <<skyVars, skyView, generated>>

\* The user edits the text input (disabled once feedback is shown).
TypeText ==
    \E text \in TextInputs :
        /\ QuizShown
        /\ isTextMode(quiz)
        /\ ~quiz.feedback.present
        /\ quiz.textInput # text
        /\ quiz' = [quiz EXCEPT !.textInput = text, !.lastKey = NoKey]
        /\ UNCHANGED <<skyVars, skyView, generated>>

\* The text form is submitted.
SubmitText ==
    /\ QuizShown
    /\ isTextMode(quiz)
    /\ ~quiz.feedback.present
    /\ quiz' = [handleTextInputSubmit(quiz) EXCEPT !.lastKey = NoKey]
    /\ UNCHANGED <<skyVars, skyView, generated>>

\* A click on the Next button, rendered when showNextButton.
ClickNext ==
    \E newQuestion \in NewQuestions(quiz) :
        /\ QuizShown
        /\ quiz.showNextButton
        /\ WithinBound(quiz)
        /\ quiz' = [handleNext(quiz, newQuestion) EXCEPT !.lastKey = NoKey]
        /\ UNCHANGED <<skyVars, skyView, generated>>

NextQuiz ==
    \/ KeyDown
    \/ ClickChoice
    \/ TypeText
    \/ SubmitText
    \/ ClickNext

SpecQuiz == InitQuiz /\ [][NextQuiz]_vars

\* The latest step handled a keydown event with one of the codes, on the
\* Quiz screen.
KeyStep(codes) == quiz.screen = "quiz" /\ quiz'.lastKey.code \in codes

\* A step left the quiz as it was (but for the record of the key pressed).
QuizUntouched == [quiz' EXCEPT !.lastKey = quiz.lastKey] = quiz

\* C15: a press of 1, 2, 3 or 4 selects the choice of that number exactly
\* when the quiz is in multiple-choice mode, the current question is
\* unanswered and the choice exists: the choice is recorded as the answer and
\* scored; any other press of these keys, in particular once the question is
\* answered, leaves recorded answers, score and screen state as they were.
C15_DigitsSelectOnlyUnanswered ==
    [][ KeyStep({"Digit1", "Digit2", "Digit3", "Numpad4"}) =>
            LET num == ParseInt(quiz'.lastKey.key)
                choices == currentQuestion(quiz).choices
            IN  IF /\ quiz.config.inputMode = "multiple-choice"
                   /\ ~quiz.feedback.present
                   /\ num <= Len(choices)
                THEN /\ quiz'.selectedAnswer = num
                     /\ quiz'.feedback = [present |-> TRUE, correct |-> choices[num].correct]
                     /\ quiz'.showNextButton
                     /\ quiz'.quizState.answers =
                            Append(quiz.quizState.answers,
                                   [constellation |->
                                        currentQuestion(quiz).constellation.displayName,
                                    userAnswer |-> choices[num].name,
                                    correct |-> choices[num].correct])
                     /\ quiz'.quizState.score =
                            quiz.quizState.score + (IF choices[num].correct THEN 1 ELSE 0)
                     /\ quiz'.quizState.currentIndex = quiz.quizState.currentIndex
                     /\ quiz'.screen = "quiz"
                ELSE QuizUntouched ]_vars

\* The 1 key was pressed on a question already answered with its fourth
\* choice: the answer stands.
C15_Witness ==
    /\ quiz.screen = "quiz" /\ quiz.lastKey.key = "1"
    /\ quiz.feedback.present /\ quiz.selectedAnswer = 4
    /\ Len(quiz.quizState.answers) = quiz.quizState.currentIndex + 1
    /\ quiz.quizState.answers[Len(quiz.quizState.answers)].userAnswer
           = currentQuestion(quiz).choices[4].name

DataHemisphere(abbrev) ==
    CASE abbrev \in {UMA, BOO} -> "North"
      [] abbrev \in {LYN, CRB} -> "north"
      [] abbrev = OPH -> "both"
      [] OTHER -> "south"

\* constellationData[abbrev].difficulty of the catalogs.
DataDifficulty(abbrev) ==
    CASE abbrev \in {UMA, PAV, ERI, CRB} -> "medium"
      [] abbrev \in {OPH, BOO} -> "easy"
      [] OTHER -> "hard"

\* String.prototype.toLowerCase, on the hemisphere values of the catalogs.
HemisphereToLowerCase(hemisphere) ==
    CASE hemisphere = "North" -> "north"
      [] hemisphere = "South" -> "south"
      [] hemisphere = "Both" -> "both"
      [] OTHER -> hemisphere

\* The abbrevs of a sequence of catalog entries.
AbbrevsOf(es) == [i \in 1..Len(es) |-> es[i].abbrev]

\* filteredConstellations of SkyViewScreen: Object.keys(constellationData)
\* filtered by hemisphere, then by difficulty unless it is 'all'.
filteredConstellations(constellationData, config) ==
    IF constellationData = "null" THEN << >>
    ELSE LET allAbbrevs == AbbrevsOf(Entries(constellationData))
             byHemisphere ==
                 SelectSeq(allAbbrevs,
                     LAMBDA abbrev :
                         \/ config.hemisphere = "both"
                         \/ HemisphereToLowerCase(DataHemisphere(abbrev))
                                = config.hemisphere)
         IN  IF config.difficulty # "all"
             THEN SelectSeq(byHemisphere,
                      LAMBDA abbrev : DataDifficulty(abbrev) = config.difficulty)
             ELSE byHemisphere

\* The filtered constellations of a state of the screen.
FilteredOf(s) == filteredConstellations(s.constellationData, s.config)

\* The elements of a sequence.
Range(seq) == {seq[i] : i \in 1..Len(seq)}

\* The arrays shuffleArray can return: every order of the elements.
Shuffles(array) ==
    { p \in [1..Len(array) -> Range(array)] :
          \A i, j \in 1..Len(array) : p[i] = p[j] => array[i] = array[j] \/ i = j }

\* LastTwo keeping one entry: prev.slice(-1).
MutLastOne(prev) == SubSeq(prev, Max2(1, Len(prev)), Len(prev))

\* prev.slice(-2)
LastTwo(prev) == SubSeq(prev, Max2(1, Len(prev) - 1), Len(prev))

\* prev.slice(1)
Rest(prev) == SubSeq(prev, 2, Len(prev))

\* No feedback shown (feedback is null).
NoTap == [present |-> FALSE, correct |-> FALSE, tappedAbbrev |-> Null]

\* The candidates of the endless branch: the filtered constellations not
\* in recentlyAsked, or all of them when none is left.
EndlessCandidates(s) ==
    LET candidates == SelectSeq(FilteredOf(s),
                          LAMBDA a : a \notin Range(s.recentlyAsked))
    IN  IF Len(candidates) = 0 THEN FilteredOf(s) ELSE candidates

\* pickNewTarget that shows the head of the queue again instead of popping
\* it.
MutNoPop(s, isInitial, next, shuffled) ==
    IF Len(FilteredOf(s)) = 0
    THEN [s EXCEPT !.targetAbbrev = Null]
    ELSE IF s.config.mode = "endless"
    THEN [s EXCEPT !.targetAbbrev = next,
                   !.recentlyAsked = Append(LastTwo(@), next),
                   !.feedback = NoTap]
    ELSE IF isInitial
    THEN [s EXCEPT !.questionQueue = shuffled,
                   !.targetAbbrev = shuffled[1],
                   !.feedback = NoTap]
    ELSE LET remaining == Rest(s.questionQueue)
         IN  IF Len(remaining) = 0
             THEN [s EXCEPT !.questionQueue = remaining,
                            !.isComplete = TRUE,
                            !.targetAbbrev = Null,
                            !.feedback = NoTap]
             ELSE [s EXCEPT !.questionQueue = remaining,
                            !.targetAbbrev = s.questionQueue[1],
                            !.feedback = NoTap]

\* pickNewTarget(isInitial).  `next` is the entry Math.random picks in the
\* endless branch, `shuffled` the array shuffleArray returns in the single
\* branch.  With no filtered constellation it returns before
\* setFeedback(null).
pickNewTarget(s, isInitial, next, shuffled) ==
    IF Len(FilteredOf(s)) = 0
    THEN [s EXCEPT !.targetAbbrev = Null]
    ELSE IF s.config.mode = "endless"
    THEN [s EXCEPT !.targetAbbrev = next,
                   !.recentlyAsked = Append(LastTwo(@), next),
                   !.feedback = NoTap]
    ELSE IF isInitial
    THEN [s EXCEPT !.questionQueue = shuffled,
                   !.targetAbbrev = shuffled[1],
                   !.feedback = NoTap]
    ELSE LET remaining == Rest(s.questionQueue)
         IN  IF Len(remaining) = 0
             THEN [s EXCEPT !.questionQueue = remaining,
                            !.isComplete = TRUE,
                            !.targetAbbrev = Null,
                            !.feedback = NoTap]
             ELSE [s EXCEPT !.questionQueue = remaining,
                            !.targetAbbrev = remaining[1],
                            !.feedback = NoTap]

\* handleTap without the return while feedback is shown.
MutTapAgain(s, tappedAbbrev) ==
    LET isCorrect == tappedAbbrev = s.targetAbbrev
    IN  IF s.targetAbbrev = Null THEN s
        ELSE [s EXCEPT
                !.score = [correct |-> @.correct + (IF isCorrect THEN 1 ELSE 0),
                           total |-> @.total + 1],
                !.feedback = [present |-> TRUE, correct |-> isCorrect,
                              tappedAbbrev |-> tappedAbbrev]]

\* handleTap(tappedAbbrev): ignored while feedback is shown.  Without a
\* target, constellationData[targetAbbrev] is undefined and
\* formatConstellationName throws before any state is set.
handleTap(s, tappedAbbrev) ==
    LET isCorrect == tappedAbbrev = s.targetAbbrev
    IN  IF s.feedback.present THEN s
        ELSE IF s.targetAbbrev = Null THEN s
        ELSE [s EXCEPT
                !.score = [correct |-> @.correct + (IF isCorrect THEN 1 ELSE 0),
                           total |-> @.total + 1],
                !.feedback = [present |-> TRUE, correct |-> isCorrect,
                              tappedAbbrev |-> tappedAbbrev]]

\* handleNext of SkyViewScreen: pickNewTarget(false).
skyViewHandleNext(s, next) == pickNewTarget(s, FALSE, next, << >>)

\* The onClick of the Play Again button.
playAgain(s, next, shuffled) ==
    pickNewTarget([s EXCEPT !.score = [correct |-> 0, total |-> 0],
                            !.isComplete = FALSE,
                            !.feedback = NoTap],
                  TRUE, next, shuffled)

\* SkyViewScreen renders the canvas: there is data, a constellation matches
\* the filters and the quiz is not complete.
CanvasShown(s) ==
    /\ s.mounted
    /\ s.constellationData # "null"
    /\ Len(FilteredOf(s)) # 0
    /\ ~s.isComplete

\* CanvasProps passing the target as highlightedAbbrev before any tap.
MutHighlightBeforeTap(s) ==
    [InitialProps(s.constellationData, FilteredOf(s), s.config.hemisphere) EXCEPT
        !.highlightedAbbrev = s.targetAbbrev,
        !.tappedFeedback = IF s.feedback.present
                           THEN [present |-> TRUE,
                                 abbrev |-> s.feedback.tappedAbbrev,
                                 correct |-> s.feedback.correct]
                           ELSE NoFeedback]

\* The props SkyViewScreen passes to SkyViewCanvas.
CanvasProps(s) ==
    [InitialProps(s.constellationData, FilteredOf(s), s.config.hemisphere) EXCEPT
        !.highlightedAbbrev = IF s.feedback.present THEN s.targetAbbrev ELSE Null,
        !.tappedFeedback = IF s.feedback.present
                           THEN [present |-> TRUE,
                                 abbrev |-> s.feedback.tappedAbbrev,
                                 correct |-> s.feedback.correct]
                           ELSE NoFeedback]

\* The targets presented since the mount or the last Play Again, with the
\* target of `s` added when it has one.
Presenting(s, before) ==
    [s EXCEPT !.presented = IF s.targetAbbrev = Null THEN before
                            ELSE Append(before, s.targetAbbrev)]

\* A configuration of SkyViewSetup, as far as the quiz reads it.
SkyViewConfig(mode, hemisphere, difficulty) ==
    [mode |-> mode, hemisphere |-> hemisphere, difficulty |-> difficulty]

\* The catalogs and configurations the screen is started with.  They match
\* 5, 3, 2, 1 and 0 constellations: north with easy matches none, as the
\* one easy constellation of "sky" has the hemisphere 'both', which
\* SkyViewSetup counts for north and the screen does not.  LYN, one of the
\* two of north with all, has no region to tap.
SkyViewStarts ==
    { <<"sky", SkyViewConfig("endless", "both", "all")>>,
      <<"sky", SkyViewConfig("endless", "both", "medium")>>,
      <<"sky", SkyViewConfig("endless", "north", "medium")>>,
      <<"sky", SkyViewConfig("endless", "north", "easy")>>,
      <<"sky", SkyViewConfig("single", "both", "medium")>>,
      <<"sky", SkyViewConfig("single", "north", "all")>>,
      <<"sky", SkyViewConfig("single", "north", "easy")>>,
      <<"overlap", SkyViewConfig("single", "both", "all")>>,
      <<"overlap", SkyViewConfig("endless", "north", "all")>> }

\* SkyViewScreen as mounted with a catalog and a configuration, after the
\* mount effect pickNewTarget(true).
MountedSkyView(constellationData, config, next, shuffled) ==
    LET s == [NoSkyView EXCEPT !.mounted = TRUE,
                               !.constellationData = constellationData,
                               !.config = config]
    IN  Presenting(pickNewTarget(s, TRUE, next, shuffled), << >>)

\* The states of the screen that show a canvas, as far as its props depend
\* on them: a start, a target among the filtered constellations and either
\* no feedback or the feedback of a tap on one of them or on empty space.
SkyViewViews ==
    UNION { LET s == [NoSkyView EXCEPT !.mounted = TRUE,
                                       !.constellationData = start[1],
                                       !.config = start[2]]
                filtered == Range(FilteredOf(s))
            IN  UNION { { [s EXCEPT !.targetAbbrev = t, !.feedback = f] :
                            f \in {NoTap} \cup
                                  { [present |-> TRUE, correct |-> a = t,
                                     tappedAbbrev |-> a] :
                                        a \in filtered \cup {Null} } } :
                        t \in filtered } :
            start \in SkyViewStarts }

\* The click events a user taps the canvas with, for the props of a pass on
\* a wide viewport: for each abbrev handleClick reports at a click target
\* (a grid over the canvas and the centers of the regions), and for null,
\* one event that is reported so, with the onClick invocations it makes.
TapEventsOf(p) ==
    LET width == canvasWidth(p.hemisphereFilter, FALSE)
        height == canvasHeight(p.hemisphereFilter, FALSE)
        rect == [left |-> RectLeft, top |-> RectTop, width |-> width, height |-> height]
        registry == RebuildPaths(<< >>, p, FALSE)
        centers == { c.at : c \in { d \in RegisteredCentroids(EffectDeps(p, FALSE)) :
                                      /\ 0 <= d.at.x /\ d.at.x <= width
                                      /\ 0 <= d.at.y /\ d.at.y <= height } }
        targets == { [x |-> (i * width) \div ClickGrid, y |-> (j * height) \div ClickGrid] :
                         i \in 0..ClickGrid, j \in 0..ClickGrid } \cup centers
        events == { ClickEvent(rect.left + t.x, rect.top + t.y, rect) : t \in targets }
        reports == [e \in events |->
                       handleClick(registry, p.onClick,
                                   CanvasPoint(e, width, height).x,
                                   CanvasPoint(e, width, height).y)]
    IN  { [event |-> e, calls |-> reports[e]] :
            e \in { CHOOSE e \in events : reports[e][1].abbrev = a :
                      a \in {reports[e][1].abbrev : e \in events} } }

\* The draw pass of the canvas for each props value the screen passes, on a
\* wide viewport: the registry and the drawing operations.
SkyViewPasses ==
    [p \in {CanvasProps(v) : v \in SkyViewViews} |->
        [boundaryPaths |-> RebuildPaths(<< >>, p, FALSE),
         canvas |-> DrawOps(p, FALSE)]]

\* The tap events for each start: they depend on the catalog, the filtered
\* constellations and the hemisphere filter only.
SkyViewTaps ==
    [start \in SkyViewStarts |->
        TapEventsOf(InitialProps(start[1],
                                 filteredConstellations(start[1], start[2]),
                                 start[2].hemisphere))]

\* The canvas after the render of a state of the screen and the draw effect
\* that follows it; the canvas is unmounted while the screen shows no
\* canvas.
CanvasOf(s) ==
    IF CanvasShown(s)
    THEN [props |-> CanvasProps(s),
          pass |-> SkyViewPasses[CanvasProps(s)],
          drawnWith |-> [drawn |-> TRUE, deps |-> EffectDeps(CanvasProps(s), FALSE)]]
    ELSE [props |-> CanvasProps(s),
          pass |-> [boundaryPaths |-> << >>, canvas |-> << >>],
          drawnWith |-> [drawn |-> FALSE, deps |-> EffectDeps(CanvasProps(s), FALSE)]]

\* What Math.random and shuffleArray may yield for a pick in state s; one
\* value where the branch taken draws no random number.
NextChoices(s) ==
    IF Len(FilteredOf(s)) # 0 /\ s.config.mode = "endless"
    THEN Range(EndlessCandidates(s)) ELSE {Null}

ShuffleChoices(s) ==
    IF Len(FilteredOf(s)) # 0 /\ s.config.mode # "endless"
    THEN Shuffles(FilteredOf(s)) ELSE {<< >>}

InitSkyView ==
    /\ isMobile = FALSE
    /\ pending = FALSE
    /\ lastEvent = NoEvent
    /\ calls = << >>
    /\ probe = [applied |-> FALSE, ra |-> 0, dec |-> 0, hemisphere |-> "north",
                cX |-> 0, cY |-> 0, x |-> 0, y |-> 0, angularDist |-> 0,
                visible |-> FALSE]
    /\ quiz = NoQuiz
    /\ generated = NotGenerated
    /\ \E start \in SkyViewStarts :
           LET s == [NoSkyView EXCEPT !.mounted = TRUE,
                                      !.constellationData = start[1],
                                      !.config = start[2]]
           IN  \E next \in NextChoices(s), shuffled \in ShuffleChoices(s) :
                   skyView = MountedSkyView(start[1], start[2], next, shuffled)
    /\ \E shown \in {CanvasOf(skyView)} :
           /\ props = shown.props
           /\ boundaryPaths = shown.pass.boundaryPaths
           /\ canvas = shown.pass.canvas
           /\ drawnWith = shown.drawnWith

\* The render that follows a change of the screen's state, with the draw
\* effect of the canvas, which runs when the canvas is mounted or one of its
\* dependencies changed.
ShowSkyView(s) ==
    /\ skyView' = s
    /\ IF CanvasShown(s) /\ drawnWith.drawn /\ CanvasProps(s) = props
       THEN UNCHANGED <<props, boundaryPaths, canvas, drawnWith>>
       ELSE \E shown \in {CanvasOf(s)} :
                /\ props' = shown.props
                /\ boundaryPaths' = shown.pass.boundaryPaths
                /\ canvas' = shown.pass.canvas
                /\ drawnWith' = shown.drawnWith
    /\ UNCHANGED <<isMobile, pending, probe, quiz, generated>>

\* An endless sky view quiz is followed until it has presented this many
\* targets.
MaxTargets == 4

\* A click on the canvas: handleClick reports the region at the point to
\* handleTap.
Tap ==
    \E tap \in (IF CanvasShown(skyView)
                THEN SkyViewTaps[<<skyView.constellationData, skyView.config>>]
                ELSE {}) :
        /\ lastEvent' = tap.event
        /\ calls' = tap.calls
        /\ ShowSkyView(handleTap(skyView, tap.calls[1].abbrev))

\* A click on the Next button, rendered while feedback is shown.
SkyViewNext ==
    \E next \in NextChoices(skyView) :
        /\ CanvasShown(skyView)
        /\ skyView.feedback.present
        /\ skyView.config.mode = "endless" => Len(skyView.presented) < MaxTargets
        /\ Quiet
        /\ ShowSkyView(Presenting(skyViewHandleNext(skyView, next), skyView.presented))

\* A click on the Play Again button of the completion view.
PlayAgain ==
    \E next \in NextChoices(skyView), shuffled \in ShuffleChoices(skyView) :
        /\ skyView.mounted
        /\ Len(FilteredOf(skyView)) # 0
        /\ skyView.isComplete
        /\ Quiet
        /\ ShowSkyView(Presenting(playAgain(skyView, next, shuffled), << >>))

NextSkyView ==
    \/ Tap
    \/ SkyViewNext
    \/ PlayAgain

SpecSkyView == InitSkyView /\ [][NextSkyView]_vars

\* The region of a visit got the highlight fill on the canvas.
FilledBlue(v) == \E i \in 1..Len(FillsOf(v)) : FillsOf(v)[i].color = "blue"

SingleMode == skyView.mounted /\ skyView.config.mode = "single"

\* No entry of a sequence occurs twice.
NoRepeats(seq) == \A i, j \in 1..Len(seq) : seq[i] = seq[j] => i = j

\* The targets presented since the mount or the last Play Again are distinct
\* filtered constellations, the queue holds the current target and then the
\* ones still to come, and on completion all were presented.
TargetsArePermutation ==
    /\ NoRepeats(skyView.presented)
    /\ Range(skyView.presented) \subseteq Range(FilteredOf(skyView))
    /\ IF skyView.isComplete
       THEN /\ Range(skyView.presented) = Range(FilteredOf(skyView))
            /\ skyView.questionQueue = << >>
       ELSE /\ NoRepeats(skyView.questionQueue)
            /\ Range(skyView.presented) \cup Range(skyView.questionQueue)
                   = Range(FilteredOf(skyView))
            /\ Range(skyView.presented) \cap Range(skyView.questionQueue)
                   = (IF skyView.questionQueue = << >> THEN {}
                      ELSE {skyView.questionQueue[1]})

\* Before completion the target is the constellation presented last.
TargetShown ==
    ~skyView.isComplete =>
        /\ skyView.targetAbbrev # Null
        /\ skyView.presented # << >>
        /\ skyView.targetAbbrev = skyView.presented[Len(skyView.presented)]

\* A step marks the quiz complete exactly when it is Next (the one step
\* that takes the feedback away) pressed on the last target of the queue.
CompletesOnLastNext ==
    SingleMode =>
        ( (~skyView.isComplete /\ skyView'.isComplete)
          <=> ( /\ skyView.feedback.present /\ ~skyView'.feedback.present
                /\ Len(skyView.questionQueue) = 1 ) )

TapStep == lastEvent'.kind = "click"

\* C23: a tap while feedback is shown changes nothing of the screen's
\* state; a step presents another target only from a state that shows
\* feedback (Next is rendered only then) or from the completion view (Play
\* Again); in every state correct <= total <= number of targets presented
\* since the mount or the last Play Again, total being that number less one
\* while the current target awaits its tap; and a complete single quiz has
\* total = number of filtered constellations.
C23_EachTargetScoredOnce ==
    /\ [][ /\ (TapStep /\ skyView.feedback.present) => skyView' = skyView
           /\ (TapStep /\ ~skyView.feedback.present) =>
                  /\ skyView'.feedback.present
                  /\ skyView'.score.total = skyView.score.total + 1
           /\ skyView'.presented # skyView.presented =>
                  skyView.feedback.present \/ skyView.isComplete ]_vars
    /\ [](skyView.mounted =>
            /\ 0 <= skyView.score.correct
            /\ skyView.score.correct <= skyView.score.total
            /\ skyView.score.total <= Len(skyView.presented)
            /\ (CanvasShown(skyView) /\ ~skyView.feedback.present) =>
                   skyView.score.total = Len(skyView.presented) - 1
            /\ (CanvasShown(skyView) /\ skyView.feedback.present) =>
                   skyView.score.total = Len(skyView.presented)
            /\ (SingleMode /\ skyView.isComplete) =>
                   skyView.score.total = Len(FilteredOf(skyView)))

\* Feedback is shown for a tap and a later tap, on another region, was
\* ignored: the score counts the presented targets once each, and not all
\* of them were answered correctly.
C23_Witness ==
    /\ CanvasShown(skyView) /\ skyView.feedback.present
    /\ lastEvent.kind = "click"
    /\ calls[1].abbrev # skyView.feedback.tappedAbbrev
    /\ skyView.score.total = Len(skyView.presented)
    /\ skyView.score.total >= 2
    /\ 0 < skyView.score.correct /\ skyView.score.correct < skyView.score.total

\* The screen runs an endless quiz.
EndlessMode == skyView.mounted /\ skyView.config.mode = "endless"

\* C24: in endless mode, with more than 3 filtered constellations no
\* presented target equals one of the up to 3 targets presented just before
\* it (recentlyAsked holds exactly those last targets, the current one
\* included); with at least one filtered constellation the target is never
\* null and the quiz is never complete.
C24_EndlessAvoidsLastThree ==
    EndlessMode =>
        /\ Len(FilteredOf(skyView)) > 3 =>
               \A i \in 1..Len(skyView.presented) :
                   \A j \in Max2(1, i - 3)..(i - 1) :
                       skyView.presented[i] # skyView.presented[j]
        /\ Len(FilteredOf(skyView)) >= 1 =>
               /\ skyView.targetAbbrev # Null
               /\ skyView.targetAbbrev \in Range(FilteredOf(skyView))
               /\ skyView.targetAbbrev = skyView.presented[Len(skyView.presented)]
               /\ ~skyView.isComplete
               /\ skyView.recentlyAsked =
                      SubSeq(skyView.presented,
                             Max2(1, Len(skyView.presented) - 2),
                             Len(skyView.presented))

\* An endless quiz over five constellations has presented its fourth
\* target, picked with three recent ones to avoid.
C24_Witness ==
    /\ EndlessMode
    /\ Len(FilteredOf(skyView)) > 3
    /\ Len(skyView.presented) >= 4
    /\ Len(skyView.recentlyAsked) = 3

\* C25: on the quiz screen 0 <= currentIndex < questions.length, answers
\* has one entry for each earlier question and one for the current question
\* exactly when its feedback is shown (so answers.length <= currentIndex +
\* 1), and score is the number of entries of answers marked correct.
C25_QuizStateConsistent ==
    QuizShown =>
        /\ 0 <= quiz.quizState.currentIndex
        /\ quiz.quizState.currentIndex < Len(quiz.quizState.questions)
        /\ Len(quiz.quizState.answers) <= quiz.quizState.currentIndex + 1
        /\ Len(quiz.quizState.answers) =
               quiz.quizState.currentIndex + (IF quiz.feedback.present THEN 1 ELSE 0)
        /\ quiz.quizState.score =
               Cardinality({i \in 1..Len(quiz.quizState.answers) :
                                quiz.quizState.answers[i].correct})

\* The second question is answered, one of the two answers correct.
C25_Witness ==
    /\ QuizShown
    /\ quiz.quizState.currentIndex = 1
    /\ Len(quiz.quizState.answers) = 2
    /\ quiz.quizState.score = 1

\* The current question is the last one and has been answered.
LastAnswered ==
    /\ quiz.screen = "quiz"
    /\ quiz.quizState.currentIndex + 1 = Len(quiz.quizState.questions)
    /\ quiz.feedback.present /\ quiz.showNextButton

QuizCatalog == << LEO, LYR, ARA, CRU, VEL, PUP >>

\* data.difficulty of the catalog.
Difficulty(abbrev) ==
    CASE abbrev \in {LEO, ARA} -> "easy"
      [] abbrev \in {LYR, CRU, VEL} -> "medium"
      [] OTHER -> "hard"

\* Math.random() yields tenths: the k-th call of a run (from 0) takes its
\* value from the sequence `random`, read in a cycle.
Random(random, k) == random[(k % Len(random)) + 1]

\* Math.floor(Math.random() * n)
RandomIndex(random, k, n) == (Random(random, k) * n) \div 10

\* shuffleArray: for i from the last index down to 1, the entries at i and
\* at a random j <= i change places.  The result comes with the number of
\* Math.random calls made so far.
RECURSIVE ShuffleFrom(_, _, _, _)
ShuffleFrom(newArray, random, k, i) ==
    IF i < 1 THEN newArray
    ELSE LET j == RandomIndex(random, k, i + 1)
         IN  ShuffleFrom([newArray EXCEPT ![i + 1] = newArray[j + 1],
                                          ![j + 1] = newArray[i + 1]],
                         random, k + 1, i - 1)

shuffleArray(array, random, k) ==
    [array |-> ShuffleFrom(array, random, k, Len(array) - 1),
     k |-> k + Max2(Len(array) - 1, 0)]

\* The filtered pool of both generators: the selected constellations with
\* customSelection, else those that match hemisphere and difficulty.
Pool(config) ==
    SelectSeq(QuizCatalog,
        LAMBDA abbrev :
            IF config.customSelection
            THEN abbrev \in Range(config.selectedConstellations)
            ELSE /\ \/ config.hemisphere = "both"
                    \/ Constellation(abbrev).hemisphere = config.hemisphere
                    \/ Constellation(abbrev).hemisphere = "both"
                 /\ \/ config.difficulty = "all"
                    \/ Difficulty(abbrev) = config.difficulty)

\* generateWrongAnswers without the test abbrev !== correctAbbrev.
MutKeepsCorrect(correctAbbrev, correctData, pool, count, random, k) ==
    LET candidates ==
            SelectSeq(pool, LAMBDA abbrev :
                Constellation(abbrev).hemisphere = correctData.hemisphere)
        others ==
            SelectSeq(pool, LAMBDA abbrev : abbrev \notin Range(candidates))
        combined == candidates \o others
        shuffled == IF Len(candidates) < count
                    THEN shuffleArray(combined, random, k)
                    ELSE shuffleArray(candidates, random, k)
    IN  [answers |-> SubSeq(shuffled.array, 1, Min2(count, Len(shuffled.array))),
         k |-> shuffled.k]

\* generateWrongAnswers: the other pool entries of the correct answer's
\* hemisphere, joined by all the others when they are fewer than count,
\* shuffled and cut to count.
generateWrongAnswers(correctAbbrev, correctData, pool, count, random, k) ==
    LET candidates ==
            SelectSeq(pool, LAMBDA abbrev :
                /\ abbrev # correctAbbrev
                /\ Constellation(abbrev).hemisphere = correctData.hemisphere)
        others ==
            SelectSeq(pool, LAMBDA abbrev :
                abbrev # correctAbbrev /\ abbrev \notin Range(candidates))
        combined == candidates \o others
        shuffled == IF Len(candidates) < count
                    THEN shuffleArray(combined, random, k)
                    ELSE shuffleArray(candidates, random, k)
    IN  [answers |-> SubSeq(shuffled.array, 1, Min2(count, Len(shuffled.array))),
         k |-> shuffled.k]

\* The question both generators build for a constellation of the pool: the
\* correct choice and the wrong answers, shuffled.  randomRotation is off,
\* so no Math.random call is made for the angle.
BuildQuestion(abbrev, pool, config, random, k) ==
    LET wrongAnswers == generateWrongAnswers(abbrev, Constellation(abbrev), pool, 3,
                                             random, k)
        allChoices ==
            shuffleArray(<< Choice(abbrev, TRUE) >> \o
                         [i \in 1..Len(wrongAnswers.answers) |->
                             Choice(wrongAnswers.answers[i], FALSE)],
                         random, wrongAnswers.k)
    IN  [question |-> [constellation |-> Constellation(abbrev),
                       choices |-> allChoices.array,
                       showLines |-> config.showLines],
         k |-> allChoices.k]

\* generateQuestions: one question for each entry of the shuffled pool.
RECURSIVE MapQuestions(_, _, _, _, _)
MapQuestions(pool, config, random, k, i) ==
    IF i > Len(pool) THEN << >>
    ELSE LET built == BuildQuestion(pool[i], pool, config, random, k)
         IN  << built.question >> \o MapQuestions(pool, config, random, built.k, i + 1)

generateQuestions(config, random) ==
    LET shuffled == shuffleArray(Pool(config), random, 0)
    IN  MapQuestions(shuffled.array, config, random, shuffled.k, 1)

\* generateSingleQuestion: a question for a random entry of the pool that
\* is not in recentAbbrevs (any entry when all are).  With an empty pool
\* the pick is undefined and the call throws: no question.
generateSingleQuestion(config, random, recentAbbrevs) ==
    LET pool == Pool(config)
        unasked == SelectSeq(pool, LAMBDA abbrev : abbrev \notin Range(recentAbbrevs))
        candidates == IF Len(unasked) = 0 THEN pool ELSE unasked
    IN  IF Len(candidates) = 0 THEN << >>
        ELSE << BuildQuestion(candidates[RandomIndex(random, 0, Len(candidates)) + 1],
                              pool, config, random, 1).question >>

\* A configuration as the generators read it.
QuizConfig(hemisphere, difficulty, customSelection, selectedConstellations) ==
    [hemisphere |-> hemisphere, difficulty |-> difficulty,
     customSelection |-> customSelection,
     selectedConstellations |-> selectedConstellations, showLines |-> TRUE]

\* The configurations the generators are called with: every hemisphere and
\* difficulty, and two custom selections.
QuizConfigs ==
    { QuizConfig(h, d, FALSE, << >>) :
          h \in {"both", "north", "south"}, d \in {"all", "easy", "medium", "hard"} }
    \cup { QuizConfig("both", "all", TRUE, sel) :
               sel \in { <<LEO, LYR, ARA, CRU, VEL>>, <<CRU, LEO>> } }

\* The values Math.random yields, in tenths, and the sequences of them a
\* run reads in a cycle.
RandomValues == {0, 4, 9}

RandomRuns == [1..3 -> RandomValues]

\* The recentAbbrevs App.nextQuestion passes: up to three abbrevs.
RecentLists == { << >>, <<LEO>>, <<ARA, LEO>>, <<LEO, LYR, ARA>> }

InitGenerate ==
    /\ props = InitialProps("null", << >>, "both")
    /\ isMobile = FALSE
    /\ pending = FALSE
    /\ boundaryPaths = << >>
    /\ canvas = << >>
    /\ drawnWith = [drawn |-> FALSE, deps |-> EffectDeps(props, isMobile)]
    /\ lastEvent = NoEvent
    /\ calls = << >>
    /\ probe = [applied |-> FALSE, ra |-> 0, dec |-> 0, hemisphere |-> "north",
                cX |-> 0, cY |-> 0, x |-> 0, y |-> 0, angularDist |-> 0,
                visible |-> FALSE]
    /\ quiz = NoQuiz
    /\ skyView = NoSkyView
    /\ \E config \in QuizConfigs, random \in RandomRuns, recentAbbrevs \in RecentLists :
           generated = [NotGenerated EXCEPT !.config = config,
                                            !.random = random,
                                            !.recentAbbrevs = recentAbbrevs]

\* App.startQuiz calls generateQuestions.
CallGenerateQuestions ==
    /\ generated.called = "none"
    /\ generated' = [generated EXCEPT
           !.called = "generateQuestions",
           !.questions = generateQuestions(generated.config, generated.random)]
    /\ UNCHANGED <<skyVars, quiz, skyView>>

\* App.nextQuestion calls generateSingleQuestion.
CallGenerateSingleQuestion ==
    /\ generated.called = "none"
    /\ generated' = [generated EXCEPT
           !.called = "generateSingleQuestion",
           !.questions = generateSingleQuestion(generated.config, generated.random,
                                                generated.recentAbbrevs)]
    /\ UNCHANGED <<skyVars, quiz, skyView>>

NextGenerate ==
    \/ CallGenerateQuestions
    \/ CallGenerateSingleQuestion

SpecGenerate == InitGenerate /\ [][NextGenerate]_vars

\* The pool of the followed call, as a set.
GeneratedPool == Range(Pool(generated.config))

\* The abbrevs of the choices of a question, and of those marked correct.
ChoiceAbbrevs(question) ==
    [i \in 1..Len(question.choices) |-> question.choices[i].abbrev]

CorrectChoices(question) ==
    {i \in 1..Len(question.choices) : question.choices[i].correct}

\* C27: every question generateQuestions or generateSingleQuestion returns
\* has exactly one choice marked correct, the one of the question's own
\* constellation, choices of pairwise distinct abbrevs, all from the pool,
\* and min(4, pool size) choices; generateQuestions returns one question
\* for each constellation of the pool.
C27_ChoicesWellFormed ==
    generated.called # "none" =>
        /\ \A n \in 1..Len(generated.questions) :
               LET question == generated.questions[n]
               IN  /\ Cardinality(CorrectChoices(question)) = 1
                   /\ \A i \in CorrectChoices(question) :
                          question.choices[i].abbrev = question.constellation.abbrev
                   /\ \A i \in 1..Len(question.choices) :
                          /\ question.choices[i].abbrev = question.constellation.abbrev
                                 => question.choices[i].correct
                          /\ question.choices[i].name
                                 = Constellation(question.choices[i].abbrev).displayName
                   /\ NoRepeats(ChoiceAbbrevs(question))
                   /\ Range(ChoiceAbbrevs(question)) \subseteq GeneratedPool
                   /\ question.constellation.abbrev \in GeneratedPool
                   /\ Len(question.choices) = Min2(4, Cardinality(GeneratedPool))
        /\ generated.called = "generateQuestions" =>
               /\ Len(generated.questions) = Cardinality(GeneratedPool)
               /\ { generated.questions[n].constellation.abbrev :
                        n \in 1..Len(generated.questions) } = GeneratedPool
        /\ generated.called = "generateSingleQuestion" =>
               Len(generated.questions) = (IF GeneratedPool = {} THEN 0 ELSE 1)

\* generateQuestions returned the questions of a pool of three: three
\* choices each, and in some question the correct one is not the first.
C27_Witness ==
    /\ generated.called = "generateQuestions"
    /\ Cardinality(GeneratedPool) = 3
    /\ Len(generated.questions) = 3
    /\ \E n \in 1..3 : /\ Len(generated.questions[n].choices) = 3
                       /\ ~generated.questions[n].choices[1].correct

\* The wrong answers of a question, and the other pool entries of the
\* hemisphere of its correct answer.
WrongAnswers(question) ==
    { question.choices[i].abbrev :
          i \in {j \in 1..Len(question.choices) : ~question.choices[j].correct} }

SameHemisphere(question) ==
    { abbrev \in GeneratedPool \ {question.constellation.abbrev} :
          Constellation(abbrev).hemisphere = question.constellation.hemisphere }

\* C28: generateWrongAnswers prefers the hemisphere of the correct answer.
\* When at least count (3) other pool entries share it, every wrong answer
\* is from that hemisphere; when fewer do, all of them are among the wrong
\* answers and only the remaining slots are filled from other hemispheres.
C28_PrefersOwnHemisphere ==
    \A n \in 1..Len(generated.questions) :
        LET question == generated.questions[n]
        IN  IF Cardinality(SameHemisphere(question)) >= 3
            THEN WrongAnswers(question) \subseteq SameHemisphere(question)
            ELSE SameHemisphere(question) \subseteq WrongAnswers(question)

\* The half of C28 that holds: with at least three other pool entries of
\* the hemisphere of the correct answer, every wrong answer is one of them.
C28_EnoughInOwnHemisphere ==
    \A n \in 1..Len(generated.questions) :
        LET question == generated.questions[n]
        IN  Cardinality(SameHemisphere(question)) >= 3 =>
                WrongAnswers(question) \subseteq SameHemisphere(question)

\* A circle lies inside the canvas rectangle [0, width] x [0, height].
CircleInside(circle, size) ==
    /\ 0 <= circle.centerX - circle.radius
    /\ circle.centerX + circle.radius <= size.width
    /\ 0 <= circle.centerY - circle.radius
    /\ circle.centerY + circle.radius <= size.height

\* Two circles have no interior point in common: their centers are at
\* least the sum of the radii apart.
CirclesApart(c, d) ==
    (c.centerX - d.centerX) * (c.centerX - d.centerX)
        + (c.centerY - d.centerY) * (c.centerY - d.centerY)
    >= (c.radius + d.radius) * (c.radius + d.radius)

\* The circles of a layout, one for each hemisphere shown.
LayoutCircles(hemisphereFilter, mobile) ==
    LET shown == hemispheresToShow(hemisphereFilter)
    IN  [i \in 1..Len(shown) |-> ClipCircle(shown[i], hemisphereFilter, mobile)]

\* C29: for every viewport class and hemisphereFilter, each hemisphere
\* circle (center, radius hemisphereSize / 2) lies entirely inside the
\* canvas rectangle [0, canvasWidth] x [0, canvasHeight], and two circles
\* shown together do not overlap.  Stated of the layout of the current
\* render and of the circles clipped in the last draw pass.
C29_CirclesInsideCanvasAndApart ==
    /\ LET circles == LayoutCircles(props.hemisphereFilter, isMobile)
           size == [width |-> canvasWidth(props.hemisphereFilter, isMobile),
                    height |-> canvasHeight(props.hemisphereFilter, isMobile)]
       IN  /\ \A i \in 1..Len(circles) : CircleInside(circles[i], size)
           /\ \A i, j \in 1..Len(circles) :
                  i # j => CirclesApart(circles[i], circles[j])
    /\ drawnWith.drawn =>
           /\ \A i \in 1..Len(DrawnCircles) : CircleInside(DrawnCircles[i], DrawnCanvasSize)
           /\ \A i, j \in 1..Len(DrawnCircles) :
                  i # j => CirclesApart(DrawnCircles[i], DrawnCircles[j])

\* A pass on a narrow viewport with both hemispheres: the south circle is
\* below the north one and reaches lower than the canvas of one circle.
C29_Witness ==
    /\ drawnWith.drawn /\ ~pending
    /\ Drawn.hemisphereFilter = "both" /\ Drawn.isMobile
    /\ Len(DrawnCircles) = 2
    /\ DrawnCircles[2].centerY + DrawnCircles[2].radius > hemisphereSize + 60
    /\ DrawnCircles[2].centerY - DrawnCircles[2].radius
           > DrawnCircles[1].centerY + DrawnCircles[1].radius

====
